---- MODULE Spec2Model ----
(***************************************************************************)
(* Riichi mahjong score calculator (riichi_calc): the hand organizer       *)
(* (validation, declared calls, pair hypotheses, backtracking set search,  *)
(* wait classification) and the score calculator (han, fu, basic points,   *)
(* payments), as state machines over bounded inputs.                       *)
(***************************************************************************)
EXTENDS Integers, Sequences, FiniteSets, TLC

VARIABLES
    input,            \* the UserInput of the request
    pc,               \* position in calculate_agari / organize_hand
    master_counts,    \* organize_hand: counts of all hand_tiles
    concealed_counts, \* organize_hand: counts after subtracting declared calls
    final_mentsu,     \* organize_hand: the declared sets pushed so far
    idx,              \* loop position (closed_kans, open_melds, pair index)
    org_result,       \* what organize_hand returned
    yaku_result,      \* what check_all_yaku returned
    agari_result,     \* what calculate_agari returned
    trace             \* the stages run so far, in order

vars == <<input, pc, master_counts, concealed_counts, final_mentsu, idx,
          org_result, yaku_result, agari_result, trace>>

(***************************************************************************)
(* Tiles.  A Hai is <<suit, n>>: Suhai(n, suit) for the three numbered     *)
(* suits, Jihai(Kaze) with n = 1..4 (Ton, Nan, Shaa, Pei) and              *)
(* Jihai(Sangen) with n = 1..3 (Haku, Hatsu, Chun).                        *)
(***************************************************************************)
NumKinds == 34

U8 == 256

\* a panic: .expect(..) on a None, a failed try_into, or an arithmetic
\* overflow in a build with overflow checks
Abort == [tag |-> "Abort"]

\* the two build profiles: debug has overflow checks (an overflowing u8
\* operation panics), release has none (it wraps)
Builds == {"debug", "release"}

\* a + b on u8
add_u8(a, b, build) ==
    IF a + b < U8 THEN [tag |-> "Ok", value |-> a + b]
    ELSE IF build = "debug" THEN Abort
    ELSE [tag |-> "Ok", value |-> (a + b) % U8]

\* a * b on u8
mul_u8(a, b, build) ==
    IF a * b < U8 THEN [tag |-> "Ok", value |-> a * b]
    ELSE IF build = "debug" THEN Abort
    ELSE [tag |-> "Ok", value |-> (a * b) % U8]

\* half the width of a u32: a u32 is hi * Limb + lo with hi, lo < Limb
Limb == 2 ^ 16

\* the outcome of a u32 expression that has not panicked
U32Ok(n) == [tag |-> "Ok", value |-> n]

\* x + y on u32 outcomes: Abort passed on; the sum taken by halves, so that
\* it is hi * Limb + lo % Limb, and it has left u32 exactly when hi >= Limb
add_u32(x, y, build) ==
    IF x = Abort \/ y = Abort THEN Abort
    ELSE LET lo == (x.value % Limb) + (y.value % Limb)
             hi == (x.value \div Limb) + (y.value \div Limb) + (lo \div Limb)
         IN  IF hi < Limb THEN U32Ok(hi * Limb + (lo % Limb))
             ELSE IF build = "debug" THEN Abort
             ELSE U32Ok((hi % Limb) * Limb + (lo % Limb))

\* x * y on u32 outcomes, x taken by halves
mul_u32(x, y, build) ==
    IF x = Abort \/ y = Abort THEN Abort
    ELSE LET lo == (x.value % Limb) * y.value
             hi == (x.value \div Limb) * y.value + (lo \div Limb)
         IN  IF hi < Limb THEN U32Ok(hi * Limb + (lo % Limb))
             ELSE IF build = "debug" THEN Abort
             ELSE U32Ok((hi % Limb) * Limb + (lo % Limb))

\* x / n on a u32 outcome, n a nonzero literal
div_u32(x, n) == IF x = Abort THEN Abort ELSE U32Ok(x.value \div n)

Kinds == 0 .. (NumKinds - 1)

tile_to_index(t) ==
    CASE t[1] = "Manzu"  -> t[2] - 1
      [] t[1] = "Pinzu"  -> 9 + (t[2] - 1)
      [] t[1] = "Souzu"  -> 18 + (t[2] - 1)
      [] t[1] = "Kaze"   -> 27 + (t[2] - 1)
      [] t[1] = "Sangen" -> 31 + (t[2] - 1)

index_to_tile(i) ==
    IF i < 9 THEN <<"Manzu", i + 1>>
    ELSE IF i < 18 THEN <<"Pinzu", i - 9 + 1>>
    ELSE IF i < 27 THEN <<"Souzu", i - 18 + 1>>
    ELSE IF i < 31 THEN <<"Kaze", i - 27 + 1>>
    ELSE <<"Sangen", i - 31 + 1>>

ZeroCounts == [k \in Kinds |-> 0]

\* the loop over tiles[lo], .., tiles[hi] in that order, entered with the
\* outcome `counted` of the tiles before them (the range is split in halves
\* to keep the evaluation shallow; the tiles are still taken left to right)
RECURSIVE count_from(_, _, _, _, _)
count_from(tiles, lo, hi, counted, build) ==
    IF counted = Abort \/ lo > hi THEN counted
    ELSE IF lo = hi
    THEN LET i == tile_to_index(tiles[lo])
             n == add_u8(counted.counts[i], 1, build)
         IN  IF n = Abort THEN Abort
             ELSE [tag |-> "Ok", counts |-> [counted.counts EXCEPT ![i] = n.value]]
    ELSE LET mid == (lo + hi) \div 2
         IN  count_from(tiles, mid + 1, hi, count_from(tiles, lo, mid, counted, build),
                        build)

\* organize_hand step 1: [tag |-> "Ok", counts |-> the count of all tiles of a
\* tile list], or Abort where `+= 1` overflows under overflow checks
CountTiles(tiles, acc, build) ==
    count_from(tiles, 1, Len(tiles), [tag |-> "Ok", counts |-> acc], build)

Koutsu(tile, open) ==
    [mentsu_type |-> "Koutsu", is_minchou |-> open,
     tiles |-> <<tile, tile, tile, tile>>]

Kantsu(tile, open) ==
    [mentsu_type |-> "Kantsu", is_minchou |-> open,
     tiles |-> <<tile, tile, tile, tile>>]

\* a sequence whose third tile repeats the second
ShuntsuRepeatsSecond(t1, t2, t3, open) ==
    [mentsu_type |-> "Shuntsu", is_minchou |-> open,
     tiles |-> <<t1, t2, t2, t2>>]

Shuntsu(t1, t2, t3, open) ==
    [mentsu_type |-> "Shuntsu", is_minchou |-> open,
     tiles |-> <<t1, t2, t3, t3>>]

\* the pushed set left on the list
PopOmitted(s) == s

Pop(s) == SubSeq(s, 1, Len(s) - 1)

(***************************************************************************)
(* recursive_parser::find_mentsu_recursive.  The Rust function mutates     *)
(* counts and mentsu in place and returns a bool; the operator returns the *)
(* bool together with both as they are left at the return.                 *)
(***************************************************************************)
FirstNonzero(counts) ==
    IF \E k \in Kinds : counts[k] # 0
    THEN CHOOSE k \in Kinds : counts[k] # 0 /\ \A j \in 0 .. (k - 1) : counts[j] = 0
    ELSE NumKinds

\* the Triplet tried only where the Sequence is impossible
CanKoutsuAfterShuntsu(counts, i) == counts[i] >= 3 /\ ~(i < 25 /\ (i % 9) < 7 /\ counts[i + 1] > 0 /\ counts[i + 2] > 0)

CanKoutsu(counts, i) == counts[i] >= 3

\* a sequence start that may run over the end of its suit
CanShuntsuAnyRank(counts, i) ==
    /\ i < 27
    /\ counts[i] > 0
    /\ counts[i + 1] > 0
    /\ counts[i + 2] > 0

CanShuntsu(counts, i) ==
    /\ i < 27
    /\ (i % 9) < 7
    /\ counts[i] > 0
    /\ counts[i + 1] > 0
    /\ counts[i + 2] > 0

RECURSIVE find_mentsu_recursive(_, _)
find_mentsu_recursive(counts, mentsu) ==
    LET i == FirstNonzero(counts) IN
    IF i = NumKinds THEN [ok |-> TRUE, counts |-> counts, mentsu |-> mentsu]
    ELSE
      LET afterKoutsu ==
            IF CanKoutsu(counts, i)
            THEN LET r == find_mentsu_recursive(
                            [counts EXCEPT ![i] = @ - 3],
                            Append(mentsu, Koutsu(index_to_tile(i), FALSE)))
                 IN  IF r.ok THEN r
                     ELSE [ok |-> FALSE,
                           counts |-> [r.counts EXCEPT ![i] = @ + 3],
                           mentsu |-> Pop(r.mentsu)]
            ELSE [ok |-> FALSE, counts |-> counts, mentsu |-> mentsu]
      IN
      IF afterKoutsu.ok THEN afterKoutsu
      ELSE
        LET c == afterKoutsu.counts
            m == afterKoutsu.mentsu
        IN
        IF CanShuntsu(c, i)
        THEN LET r == find_mentsu_recursive(
                        [c EXCEPT ![i] = @ - 1, ![i + 1] = @ - 1, ![i + 2] = @ - 1],
                        Append(m, Shuntsu(index_to_tile(i), index_to_tile(i + 1),
                                          index_to_tile(i + 2), FALSE)))
             IN  IF r.ok THEN r
                 ELSE [ok |-> FALSE,
                       counts |-> [r.counts EXCEPT ![i] = @ + 1, ![i + 1] = @ + 1,
                                                   ![i + 2] = @ + 1],
                       mentsu |-> Pop(r.mentsu)]
        ELSE [ok |-> FALSE, counts |-> c, mentsu |-> m]

(***************************************************************************)
(* wait_analyzer                                                           *)
(***************************************************************************)
mentsu_contains_tile(mentsu, tile) ==
    IF mentsu.mentsu_type \in {"Koutsu", "Kantsu"}
    THEN mentsu.tiles[1] = tile
    ELSE mentsu.tiles[1] = tile \/ mentsu.tiles[2] = tile \/ mentsu.tiles[3] = tile

\* the edge tests of the two ends of a sequence exchanged
MachiOfMeldEndsExchanged(winning_meld, agari_hai) ==
    IF winning_meld.mentsu_type \in {"Koutsu", "Kantsu"} THEN "Shanpon"
    ELSE LET t1 == winning_meld.tiles[1]
             t2 == winning_meld.tiles[2]
             t3 == winning_meld.tiles[3]
         IN  IF agari_hai = t2 THEN "Kanchan"
             ELSE IF agari_hai = t1
                  THEN IF tile_to_index(t1) % 9 = 0 THEN "Penchan" ELSE "Ryanmen"
             ELSE IF agari_hai = t3
                  THEN IF tile_to_index(t3) % 9 = 8 THEN "Penchan" ELSE "Ryanmen"
             ELSE "Abort"

\* the machi of the set the winning tile completed
MachiOfMeld(winning_meld, agari_hai) ==
    IF winning_meld.mentsu_type \in {"Koutsu", "Kantsu"} THEN "Shanpon"
    ELSE LET t1 == winning_meld.tiles[1]
             t2 == winning_meld.tiles[2]
             t3 == winning_meld.tiles[3]
         IN  IF agari_hai = t2 THEN "Kanchan"
             ELSE IF agari_hai = t1
                  THEN IF tile_to_index(t3) % 9 = 8 THEN "Penchan" ELSE "Ryanmen"
             ELSE IF agari_hai = t3
                  THEN IF tile_to_index(t1) % 9 = 0 THEN "Penchan" ELSE "Ryanmen"
             ELSE "Abort"

\* the position of the last set holding the tile, 0 if none
FindWinningMeldLast(mentsu, agari_hai) ==
    IF \E k \in 1 .. Len(mentsu) : mentsu_contains_tile(mentsu[k], agari_hai)
    THEN CHOOSE k \in 1 .. Len(mentsu) :
            /\ mentsu_contains_tile(mentsu[k], agari_hai)
            /\ \A j \in (k + 1) .. Len(mentsu) : ~mentsu_contains_tile(mentsu[j], agari_hai)
    ELSE 0

\* .iter().find(..): the position of the first set holding the tile, 0 if none
FindWinningMeld(mentsu, agari_hai) ==
    IF \E k \in 1 .. Len(mentsu) : mentsu_contains_tile(mentsu[k], agari_hai)
    THEN CHOOSE k \in 1 .. Len(mentsu) :
            /\ mentsu_contains_tile(mentsu[k], agari_hai)
            /\ \A j \in 1 .. (k - 1) : ~mentsu_contains_tile(mentsu[j], agari_hai)
    ELSE 0

\* the sets consulted before the pair
determine_wait_type_sets_first(mentsu, atama, agari_hai) ==
    LET k == FindWinningMeld(mentsu, agari_hai) IN
    IF k # 0 THEN MachiOfMeld(mentsu[k], agari_hai)
    ELSE IF agari_hai = atama[1] THEN "Tanki"
    ELSE "Abort"

\* "Abort" is the panic of .expect(..) / unreachable!(..)
determine_wait_type(mentsu, atama, agari_hai) ==
    IF agari_hai = atama[1] THEN "Tanki"
    ELSE LET k == FindWinningMeld(mentsu, agari_hai) IN
         IF k = 0 THEN "Abort"
         ELSE MachiOfMeld(mentsu[k], agari_hai)

(***************************************************************************)
(* input_validator.  Each function returns "Ok" or the text of its Err.    *)
(***************************************************************************)
HasOpenMelds(inp) == inp.open_melds # <<>>

HasClosedKans(inp) == inp.closed_kans # <<>>

validate_game_state(p, g, a, inp) ==
    IF p.is_daburu_riichi /\ p.is_riichi
    THEN "Invalid state: Cannot be both Riichi and Daburu Riichi."
    ELSE IF p.is_ippatsu /\ ~(p.is_riichi \/ p.is_daburu_riichi)
    THEN "Invalid state: Ippatsu requires Riichi or Daburu Riichi."
    ELSE IF p.is_menzen /\ HasOpenMelds(inp)
    THEN "Invalid state: Hand is declared menzen but has open melds."
    ELSE IF g.is_haitei /\ a = "Ron"
    THEN "Invalid state: Haitei (last draw) cannot be a Ron win."
    ELSE IF g.is_houtei /\ a = "Tsumo"
    THEN "Invalid state: Houtei (last discard) cannot be a Tsumo win."
    ELSE IF g.is_haitei /\ g.is_houtei
    THEN "Invalid state: Cannot be both Haitei and Houtei."
    ELSE IF g.is_rinshan /\ a = "Ron"
    THEN "Invalid state: Rinshan (kan draw) cannot be a Ron win."
    ELSE IF g.is_chankan /\ a = "Tsumo"
    THEN "Invalid state: Chankan (robbing kan) cannot be a Tsumo win."
    ELSE IF g.is_tenhou /\ ~p.is_oya
    THEN "Invalid state: Tenhou requires player to be Oya (dealer)."
    ELSE IF g.is_tenhou /\ a # "Tsumo"
    THEN "Invalid state: Tenhou must be a Tsumo win."
    ELSE IF g.is_tenhou /\ (HasOpenMelds(inp) \/ HasClosedKans(inp))
    THEN "Invalid state: Tenhou cannot have any calls (no open melds or kans)."
    ELSE IF g.is_chiihou /\ p.is_oya
    THEN "Invalid state: Chiihou requires player to be non-Oya."
    ELSE IF g.is_chiihou /\ a # "Tsumo"
    THEN "Invalid state: Chiihou must be a Tsumo win."
    ELSE IF g.is_chiihou /\ (HasOpenMelds(inp) \/ HasClosedKans(inp))
    THEN "Invalid state: Chiihou cannot have any calls (no open melds or kans)."
    ELSE IF g.is_renhou /\ a # "Ron"
    THEN "Invalid state: Renhou must be a Ron win."
    ELSE "Ok"

\* closed kans plus the open melds of type Kantsu
TotalKans(inp) ==
    Len(inp.closed_kans)
    + Cardinality({k \in 1 .. Len(inp.open_melds) :
                     inp.open_melds[k].mentsu_type = "Kantsu"})

ContainsTile(tiles, t) == \E k \in 1 .. Len(tiles) : tiles[k] = t

\* the composition checks without the winning-tile check
validate_hand_composition_no_winning_tile(inp, counts) ==
    IF Len(inp.closed_kans) + Len(inp.open_melds) > 4
    THEN "Invalid hand: More than 4 total melds (kans + open melds) declared."
    ELSE
    LET total_kans == TotalKans(inp)
        expected_tiles == (total_kans * 4) + ((4 - total_kans) * 3) + 2
        hand_len == Len(inp.hand_tiles)
        total_fives == (counts[tile_to_index(<<"Manzu", 5>>)]
                        + counts[tile_to_index(<<"Pinzu", 5>>)]
                        + counts[tile_to_index(<<"Souzu", 5>>)]) % 256
    IN
    IF ~(hand_len = 14 /\ total_kans = 0) /\ hand_len # expected_tiles
    THEN "Invalid hand: Tile count does not match declared kans. (Expected 14 for 0 kans, 15 for 1 kan, 16 for 2, 17 for 3, 18 for 4)."
    ELSE IF \E k \in Kinds : counts[k] > 4
    THEN "Invalid hand: Contains 5 or more of a single tile type."
    ELSE IF inp.game_context.num_akadora > total_fives
    THEN "Invalid input: Number of akadora exceeds the total number of '5' tiles in the hand."
    ELSE IF inp.game_context.num_akadora > 4
    THEN "Invalid input: Number of akadora cannot be greater than 4."
    ELSE "Ok"

validate_hand_composition(inp, counts) ==
    IF Len(inp.closed_kans) + Len(inp.open_melds) > 4
    THEN "Invalid hand: More than 4 total melds (kans + open melds) declared."
    ELSE
    LET total_kans == TotalKans(inp)
        expected_tiles == (total_kans * 4) + ((4 - total_kans) * 3) + 2
        hand_len == Len(inp.hand_tiles)
        total_fives == (counts[tile_to_index(<<"Manzu", 5>>)]
                        + counts[tile_to_index(<<"Pinzu", 5>>)]
                        + counts[tile_to_index(<<"Souzu", 5>>)]) % 256
    IN
    IF ~(hand_len = 14 /\ total_kans = 0) /\ hand_len # expected_tiles
    THEN "Invalid hand: Tile count does not match declared kans. (Expected 14 for 0 kans, 15 for 1 kan, 16 for 2, 17 for 3, 18 for 4)."
    ELSE IF ~ContainsTile(inp.hand_tiles, inp.winning_tile)
    THEN "Invalid input: Winning tile is not present in the list of hand tiles."
    ELSE IF \E k \in Kinds : counts[k] > 4
    THEN "Invalid hand: Contains 5 or more of a single tile type."
    ELSE IF inp.game_context.num_akadora > total_fives
    THEN "Invalid input: Number of akadora exceeds the total number of '5' tiles in the hand."
    ELSE IF inp.game_context.num_akadora > 4
    THEN "Invalid input: Number of akadora cannot be greater than 4."
    ELSE "Ok"

\* validation that drops the result of the composition checks
validate_input_state_only(inp, counts) ==
    validate_game_state(inp.player_context, inp.game_context, inp.agari_type, inp)

validate_input(inp, counts) ==
    LET gs == validate_game_state(inp.player_context, inp.game_context,
                                  inp.agari_type, inp)
    IN  IF gs # "Ok" THEN gs ELSE validate_hand_composition(inp, counts)

(***************************************************************************)
(* score_calculator.  han and fu are u8, the number of limit patterns and  *)
(* the point values u32: an operation that leaves its type panics in a     *)
(* build with overflow checks and wraps in one without.                    *)
(***************************************************************************)
\* Hai::is_yaochuu: rank 1, rank 9 or any honor
is_yaochuu(t) ==
    IF t[1] \in {"Kaze", "Sangen"} THEN TRUE ELSE t[2] = 1 \/ t[2] = 9

\* (n + 99) / 100 * 100 on a u32 outcome
round_up_100(n, build) ==
    mul_u32(div_u32(add_u32(n, U32Ok(99), build), 100), U32Ok(100), build)

yakuman_value(yaku) ==
    IF yaku \in {"SuuankouTanki", "KokushiMusouJusanmen", "JunseiChuurenPoutou"}
    THEN 2
    ELSE IF yaku \in {"Tenhou", "Chiihou", "Renhou", "Daisangen", "Suuankou",
                      "Daisuushi", "Shousuushi", "Tsuuiisou", "Chinroutou",
                      "Ryuuiisou", "Suukantsu", "KokushiMusou", "ChuurenPoutou"}
    THEN 1
    ELSE 0

\* Iterator::sum over u32: the values of yaku_list[lo], .., yaku_list[hi] added
\* in list order to the outcome `acc` of the entries before them (the range is
\* split in halves to keep the evaluation shallow)
RECURSIVE count_yakuman_from(_, _, _, _, _)
count_yakuman_from(yaku_list, lo, hi, acc, build) ==
    IF acc = Abort \/ lo > hi THEN acc
    ELSE IF lo = hi THEN add_u32(acc, U32Ok(yakuman_value(yaku_list[lo])), build)
    ELSE LET mid == (lo + hi) \div 2
         IN  count_yakuman_from(yaku_list, mid + 1, hi,
                                count_yakuman_from(yaku_list, lo, mid, acc, build), build)

\* [tag |-> "Ok", value |-> the number of limit patterns], or Abort where the
\* sum overflows under overflow checks
count_yakuman(yaku_list, build) ==
    count_yakuman_from(yaku_list, 1, Len(yaku_list), U32Ok(0), build)

get_han_value(yaku, is_menzen) ==
    IF yaku \in {"Riichi", "Ippatsu", "MenzenTsumo", "Pinfu", "Iipeikou",
                 "HaiteiRaoyue", "HouteiRaoyui", "RinshanKaihou", "Chankan",
                 "Tanyao", "YakuhaiJikaze", "YakuhaiBakaze", "YakuhaiSangenpai"}
    THEN 1
    ELSE IF yaku \in {"DaburuRiichi", "Chiitoitsu", "Toitoi", "Sanankou",
                      "SanshokuDoukou", "Sankantsu", "Shousangen", "Honroutou"}
    THEN 2
    ELSE IF yaku \in {"SanshokuDoujun", "Ittsu", "Chanta"}
    THEN (IF is_menzen THEN 2 ELSE 1)
    ELSE IF yaku = "Ryanpeikou" THEN 3
    ELSE IF yaku \in {"Junchan", "Honitsu"}
    THEN (IF is_menzen THEN 3 ELSE 2)
    ELSE IF yaku = "Chinitsu"
    THEN (IF is_menzen THEN 6 ELSE 5)
    ELSE IF yaku \in {"Dora", "UraDora", "AkaDora"} THEN 1
    ELSE 0

\* Iterator::sum over u8: the values of yaku_list[lo], .., yaku_list[hi] added
\* in list order to the outcome `acc` of the entries before them (the range is
\* split in halves to keep the evaluation shallow)
RECURSIVE sum_han(_, _, _, _, _, _)
sum_han(yaku_list, is_menzen, lo, hi, acc, build) ==
    IF acc = Abort \/ lo > hi THEN acc
    ELSE IF lo = hi
    THEN add_u8(acc.value, get_han_value(yaku_list[lo], is_menzen), build)
    ELSE LET mid == (lo + hi) \div 2
         IN  sum_han(yaku_list, is_menzen, mid + 1, hi,
                     sum_han(yaku_list, is_menzen, lo, mid, acc, build), build)

\* [tag |-> "Ok", value |-> han], or Abort where the sum overflows under
\* overflow checks
calculate_han(yaku_list, is_menzen, build) ==
    sum_han(yaku_list, is_menzen, 1, Len(yaku_list), [tag |-> "Ok", value |-> 0], build)

\* a wind pair counted once when it is both the round and the seat wind
get_pair_fu_single_wind(tile, player, game) ==
    IF tile[1] = "Sangen" THEN 2
    ELSE IF tile[1] = "Kaze"
    THEN (IF tile[2] = game.bakaze \/ tile[2] = player.jikaze THEN 2 ELSE 0)
    ELSE 0

get_pair_fu(tile, player, game) ==
    IF tile[1] = "Sangen" THEN 2
    ELSE IF tile[1] = "Kaze"
    THEN (IF tile[2] = game.bakaze THEN 2 ELSE 0)
         + (IF tile[2] = player.jikaze THEN 2 ELSE 0)
    ELSE 0

\* the fu of one set: the 8-entry table of calculate_fu
mentsu_fu(mentsu) ==
    LET is_open == mentsu.is_minchou
        yaochuu == is_yaochuu(mentsu.tiles[1])
    IN  IF mentsu.mentsu_type = "Koutsu"
        THEN (IF is_open /\ ~yaochuu THEN 2
              ELSE IF is_open /\ yaochuu THEN 4
              ELSE IF ~is_open /\ ~yaochuu THEN 4
              ELSE 8)
        ELSE IF mentsu.mentsu_type = "Kantsu"
        THEN (IF is_open /\ ~yaochuu THEN 8
              ELSE IF is_open /\ yaochuu THEN 16
              ELSE IF ~is_open /\ ~yaochuu THEN 16
              ELSE 32)
        ELSE 0

RECURSIVE all_mentsu_fu(_)
all_mentsu_fu(mentsu) ==
    IF mentsu = <<>> THEN 0
    ELSE mentsu_fu(Head(mentsu)) + all_mentsu_fu(Tail(mentsu))

wait_fu(machi) == IF machi \in {"Kanchan", "Penchan", "Tanki"} THEN 2 ELSE 0

agari_fu(player, agari_type) ==
    IF agari_type = "Tsumo" THEN 2
    ELSE IF player.is_menzen THEN 10
    ELSE 0

\* the final rounding left out
round_up_10_omitted(fu) == fu % U8

round_up_10(fu) == (((fu + 9) \div 10) * 10) % U8

calculate_fu(hand_structure, yaku_list, player, game, agari_type) ==
    IF ContainsTile(yaku_list, "Chiitoitsu") THEN 25
    ELSE IF ContainsTile(yaku_list, "Pinfu")
    THEN (IF agari_type = "Tsumo" THEN 20 ELSE 30)
    ELSE IF hand_structure.tag = "Chiitoitsu" THEN 25
    ELSE IF hand_structure.tag = "KokushiMusou" THEN 0
    ELSE LET hand == hand_structure.hand
             fu == 20 + agari_fu(player, agari_type)
                      + all_mentsu_fu(hand.mentsu)
                      + get_pair_fu(hand.atama[1], player, game)
                      + wait_fu(hand.machi)
         IN  round_up_10(fu)

\* the Haneman tier entered one han late
calculate_basic_points_late_haneman(han, fu) ==
    IF han >= 13 THEN <<8000, "Yakuman">>
    ELSE IF han >= 11 THEN <<6000, "Sanbaiman">>
    ELSE IF han >= 8 THEN <<4000, "Baiman">>
    ELSE IF han >= 7 THEN <<3000, "Haneman">>
    ELSE IF han >= 5 THEN <<2000, "Mangan">>
    ELSE LET basic_points == fu * (2 ^ (han + 2))
         IN  IF basic_points >= 2000 THEN <<2000, "Mangan">>
             ELSE <<basic_points, "None">>

\* <<basic points, limit name>>
calculate_basic_points(han, fu) ==
    IF han >= 13 THEN <<8000, "Yakuman">>
    ELSE IF han >= 11 THEN <<6000, "Sanbaiman">>
    ELSE IF han >= 8 THEN <<4000, "Baiman">>
    ELSE IF han >= 6 THEN <<3000, "Haneman">>
    ELSE IF han = 5 THEN <<2000, "Mangan">>
    ELSE LET basic_points == fu * (2 ^ (han + 2))
         IN  IF basic_points >= 2000 THEN <<2000, "Mangan">>
             ELSE <<basic_points, "None">>

\* the four payments of a match arm, or Abort where one of them has panicked
payment_tuple(base_points, oya_payment, ko_payment, total_payment) ==
    IF base_points = Abort \/ oya_payment = Abort \/ ko_payment = Abort
       \/ total_payment = Abort
    THEN Abort
    ELSE [tag |-> "Ok",
          pay |-> <<base_points.value, oya_payment.value, ko_payment.value,
                    total_payment.value>>]

\* <<base_points, oya_payment, ko_payment, total_payment>> of the limit path,
\* or Abort
yakuman_payments(base_yakuman_points, is_oya, agari_type, tsumo_bonus, ron_bonus, build) ==
    LET base == U32Ok(base_yakuman_points)
        tb == U32Ok(tsumo_bonus)
        rb == U32Ok(ron_bonus)
        times(x, n) == mul_u32(x, U32Ok(n), build)
    IN
    IF is_oya /\ agari_type = "Tsumo"
    THEN LET p == round_up_100(times(base, 2), build)
         IN  payment_tuple(p, p, U32Ok(0), times(add_u32(p, tb, build), 3))
    ELSE IF ~is_oya /\ agari_type = "Tsumo"
    THEN LET oya_p == round_up_100(times(base, 2), build)
             ko_p == round_up_100(times(base, 1), build)
         IN  payment_tuple(ko_p, oya_p, ko_p,
                           add_u32(add_u32(oya_p, tb, build),
                                   times(add_u32(ko_p, tb, build), 2), build))
    ELSE IF is_oya
    THEN LET total == add_u32(round_up_100(times(base, 6), build), rb, build)
         IN  payment_tuple(total, U32Ok(0), U32Ok(0), total)
    ELSE LET total == add_u32(round_up_100(times(base, 4), build), rb, build)
         IN  payment_tuple(total, U32Ok(0), U32Ok(0), total)

\* <<base_points, oya_payment, ko_payment, total_payment>> of the regular path
regular_payments(basic_points, is_oya, agari_type, tsumo_bonus, ron_bonus, build) ==
    LET base == U32Ok(basic_points)
        tb == U32Ok(tsumo_bonus)
        rb == U32Ok(ron_bonus)
        times(x, n) == mul_u32(x, U32Ok(n), build)
    IN
    IF is_oya /\ agari_type = "Tsumo"
    THEN LET p == round_up_100(times(base, 2), build)
         IN  payment_tuple(p, p, U32Ok(0), times(add_u32(p, tb, build), 3))
    ELSE IF ~is_oya /\ agari_type = "Tsumo"
    THEN LET oya_p == round_up_100(times(base, 2), build)
             ko_p == round_up_100(times(base, 1), build)
         IN  payment_tuple(ko_p, oya_p, ko_p,
                           add_u32(add_u32(oya_p, tb, build),
                                   times(add_u32(ko_p, tb, build), 2), build))
    ELSE IF is_oya
    THEN LET total == add_u32(round_up_100(times(base, 6), build), rb, build)
         IN  payment_tuple(total, U32Ok(0), U32Ok(0), total)
    ELSE LET total == add_u32(round_up_100(times(base, 4), build), rb, build)
         IN  payment_tuple(total, U32Ok(0), U32Ok(0), total)

\* the AgariResult, or Abort where an operation overflows under overflow
\* checks: the u32 sum of count_yakuman, `13 * num_yakuman as u8` (the cast
\* truncates in both builds, the u8 product overflows), the u32 product
\* `8000 * num_yakuman`, the u32 payments, or the u8 sum of calculate_han
calculate_score(yr, player, game, agari_type, build) ==
    LET tsumo_bonus == game.honba * 100
        ron_bonus == game.honba * 300
        yaku_list == yr.yaku_list
        num_yakuman == count_yakuman(yaku_list, build)
    IN
    IF num_yakuman = Abort THEN Abort
    ELSE IF num_yakuman.value > 0
    THEN LET han == mul_u8(13, num_yakuman.value % U8, build)
             base_yakuman_points == mul_u32(num_yakuman, U32Ok(8000), build)
             pay == yakuman_payments(base_yakuman_points.value, player.is_oya,
                                     agari_type, tsumo_bonus, ron_bonus, build)
         IN  IF han = Abort \/ base_yakuman_points = Abort THEN Abort
             ELSE IF pay = Abort THEN Abort
             ELSE
             [han |-> han.value,
              fu |-> 0,
              yaku_list |-> yaku_list,
              num_akadora |-> 0,
              limit_name |-> "Yakuman",
              base_points |-> pay.pay[1],
              oya_payment |-> pay.pay[2],
              ko_payment |-> pay.pay[3],
              total_payment |-> pay.pay[4]]
    ELSE LET h == calculate_han(yaku_list, player.is_menzen, build)
             han == h.value
             fu == calculate_fu(yr.hand_structure, yaku_list, player, game, agari_type)
             bp == calculate_basic_points(han, fu)
             pay == regular_payments(bp[1], player.is_oya, agari_type,
                                     tsumo_bonus, ron_bonus, build)
         IN  IF h = Abort THEN Abort
             ELSE IF pay = Abort THEN Abort
             ELSE
             [han |-> han,
              fu |-> fu,
              yaku_list |-> yaku_list,
              num_akadora |-> yr.num_akadora,
              limit_name |-> bp[2],
              base_points |-> pay.pay[1],
              oya_payment |-> pay.pay[2],
              ko_payment |-> pay.pay[3],
              total_payment |-> pay.pay[4]]

(***************************************************************************)
(* Results                                                                 *)
(***************************************************************************)
None == [tag |-> "None"]

Err(msg) == [tag |-> "Err", msg |-> msg]

AgariHand(mentsu, atama, agari_hai, machi) ==
    [mentsu |-> mentsu, atama |-> atama, agari_hai |-> agari_hai, machi |-> machi]

Regular(hand) == [tag |-> "YonmentsuIchiatama", hand |-> hand]

Irregular(counts, agari_hai) ==
    [tag |-> "Irregular", counts |-> counts, agari_hai |-> agari_hai]

(***************************************************************************)
(* organize_hand, one action per step                                      *)
(***************************************************************************)
\* where organize_hand goes once `done` declared calls of a list are handled
AfterValidation(inp) ==
    IF inp.closed_kans # <<>> THEN "closed_kans"
    ELSE IF inp.open_melds # <<>> THEN "open_melds"
    ELSE "pairs"

AfterClosedKans(inp, mentsu) ==
    IF inp.open_melds # <<>> THEN "open_melds"
    ELSE IF 4 - Len(mentsu) = 0 THEN "case_a"
    ELSE "pairs"

\* the pair loop entered whatever the number of declared sets
AfterOpenMeldsNoCaseA(mentsu) == "pairs"

AfterOpenMelds(mentsu) == IF 4 - Len(mentsu) = 0 THEN "case_a" ELSE "pairs"

\* steps 1 and 2: count the tiles, run validate_input, copy the counts
Validate ==
    /\ pc = "start"
    /\ \E build \in Builds :
         LET counted == CountTiles(input.hand_tiles, ZeroCounts, build)
             mc == counted.counts
             v == validate_input(input, mc)
         IN  IF counted = Abort
             THEN /\ org_result' = Abort
                  /\ pc' = "organized"
                  /\ UNCHANGED <<master_counts, concealed_counts, final_mentsu, idx>>
             ELSE /\ master_counts' = mc
                  /\ IF v # "Ok"
                     THEN /\ org_result' = Err(v)
                          /\ pc' = "organized"
                          /\ UNCHANGED <<concealed_counts, final_mentsu, idx>>
                     ELSE /\ concealed_counts' = mc
                          /\ final_mentsu' = <<>>
                          /\ idx' = IF AfterValidation(input) = "pairs" THEN 0 ELSE 1
                          /\ pc' = AfterValidation(input)
                          /\ UNCHANGED org_result
    /\ trace' = Append(trace, "validate")
    /\ UNCHANGED <<input, yaku_result, agari_result>>

\* step 3: one iteration of the loop over closed_kans
ClosedKan ==
    /\ pc = "closed_kans"
    /\ LET kan_tile == input.closed_kans[idx]
           index == tile_to_index(kan_tile)
       IN  IF concealed_counts[index] < 4
           THEN /\ org_result' =
                     Err("Invalid input: declared closed kan not present in hand tiles.")
                /\ pc' = "organized"
                /\ UNCHANGED <<concealed_counts, final_mentsu, idx>>
           ELSE LET m == Append(final_mentsu, Kantsu(kan_tile, FALSE)) IN
                /\ concealed_counts' = [concealed_counts EXCEPT ![index] = @ - 4]
                /\ final_mentsu' = m
                /\ IF idx < Len(input.closed_kans)
                   THEN idx' = idx + 1 /\ pc' = "closed_kans"
                   ELSE /\ pc' = AfterClosedKans(input, m)
                        /\ idx' = IF AfterClosedKans(input, m) = "open_melds"
                                  THEN 1 ELSE 0
                /\ UNCHANGED org_result
    /\ trace' = Append(trace, "closed_kan")
    /\ UNCHANGED <<input, master_counts, yaku_result, agari_result>>

\* a declared Chi accepted whatever its representative tile
open_meld_step_any_chi_start(counts, meld) ==
    LET rep_tile == meld.representative_tile
        index == tile_to_index(rep_tile)
    IN
    IF meld.mentsu_type = "Koutsu"
    THEN IF counts[index] < 3
         THEN <<"Invalid input: declared Pon not present in hand tiles.", counts, None>>
         ELSE <<"Ok", [counts EXCEPT ![index] = @ - 3], Koutsu(rep_tile, TRUE)>>
    ELSE IF meld.mentsu_type = "Kantsu"
    THEN IF counts[index] < 4
         THEN <<"Invalid input: declared open Kan not present in hand tiles.", counts, None>>
         ELSE <<"Ok", [counts EXCEPT ![index] = @ - 4], Kantsu(rep_tile, TRUE)>>
    ELSE IF counts[index] < 1 \/ counts[index + 1] < 1 \/ counts[index + 2] < 1
         THEN <<"Invalid input: declared Chi not present in hand tiles.", counts, None>>
         ELSE <<"Ok",
                [counts EXCEPT ![index] = @ - 1, ![index + 1] = @ - 1,
                               ![index + 2] = @ - 1],
                Shuntsu(rep_tile, index_to_tile(index + 1),
                        index_to_tile(index + 2), TRUE)>>

\* the outcome of one declared open meld: <<error or "Ok", counts, set>>
open_meld_step(counts, meld) ==
    LET rep_tile == meld.representative_tile
        index == tile_to_index(rep_tile)
    IN
    IF meld.mentsu_type = "Koutsu"
    THEN IF counts[index] < 3
         THEN <<"Invalid input: declared Pon not present in hand tiles.", counts, None>>
         ELSE <<"Ok", [counts EXCEPT ![index] = @ - 3], Koutsu(rep_tile, TRUE)>>
    ELSE IF meld.mentsu_type = "Kantsu"
    THEN IF counts[index] < 4
         THEN <<"Invalid input: declared open Kan not present in hand tiles.", counts, None>>
         ELSE <<"Ok", [counts EXCEPT ![index] = @ - 4], Kantsu(rep_tile, TRUE)>>
    ELSE IF index >= 27 \/ (index % 9) >= 7
         THEN <<"Invalid representative tile for Chi (must be 1-7 of a suit).", counts, None>>
         ELSE IF counts[index] < 1 \/ counts[index + 1] < 1 \/ counts[index + 2] < 1
         THEN <<"Invalid input: declared Chi not present in hand tiles.", counts, None>>
         ELSE <<"Ok",
                [counts EXCEPT ![index] = @ - 1, ![index + 1] = @ - 1,
                               ![index + 2] = @ - 1],
                Shuntsu(rep_tile, index_to_tile(index + 1),
                        index_to_tile(index + 2), TRUE)>>

\* step 4: one iteration of the loop over open_melds
OpenMeld ==
    /\ pc = "open_melds"
    /\ LET r == open_meld_step(concealed_counts, input.open_melds[idx]) IN
       IF r[1] # "Ok"
       THEN /\ org_result' = Err(r[1])
            /\ pc' = "organized"
            /\ UNCHANGED <<concealed_counts, final_mentsu, idx>>
       ELSE LET m == Append(final_mentsu, r[3]) IN
            /\ concealed_counts' = r[2]
            /\ final_mentsu' = m
            /\ IF idx < Len(input.open_melds)
               THEN idx' = idx + 1 /\ pc' = "open_melds"
               ELSE pc' = AfterOpenMelds(m) /\ idx' = 0
            /\ UNCHANGED org_result
    /\ trace' = Append(trace, "open_meld")
    /\ UNCHANGED <<input, master_counts, yaku_result, agari_result>>

\* step 5
mentsu_needed == 4 - Len(final_mentsu)

\* the array filled from the last set to the first
mentsu_array_reversed(mentsu, atama, agari_hai, machi) ==
    IF Len(mentsu) # 4 \/ machi = "Abort" THEN Abort
    ELSE Regular(AgariHand([k \in 1 .. 4 |-> mentsu[5 - k]], atama, agari_hai, machi))

\* [Mentsu; 4] from a Vec: try_into().expect(..)
mentsu_array(mentsu, atama, agari_hai, machi) ==
    IF Len(mentsu) # 4 \/ machi = "Abort" THEN Abort
    ELSE Regular(AgariHand(mentsu, atama, agari_hai, machi))

\* Case A: four declared sets
CaseA ==
    /\ pc = "case_a"
    /\ IF \E i \in Kinds : concealed_counts[i] = 2
       THEN LET i == CHOOSE k \in Kinds :
                        /\ concealed_counts[k] = 2
                        /\ \A j \in 0 .. (k - 1) : concealed_counts[j] # 2
                pair_tile == index_to_tile(i)
            IN  /\ org_result' = mentsu_array(final_mentsu, <<pair_tile, pair_tile>>,
                                              input.winning_tile, "Tanki")
                /\ pc' = "organized"
       ELSE IF Len(input.hand_tiles) = 14
       THEN pc' = "pairs" /\ UNCHANGED org_result
       ELSE /\ org_result' = Err("Invalid hand: 4 open melds but no pair found.")
            /\ pc' = "organized"
    /\ trace' = Append(trace, "case_a")
    /\ UNCHANGED <<input, master_counts, concealed_counts, final_mentsu, idx,
                   yaku_result, agari_result>>

HasPairFrom(counts, from) == \E i \in from .. (NumKinds - 1) : counts[i] >= 2

\* the pair hypotheses taken from the highest index down
NextPairHighest(counts, from) ==
    CHOOSE i \in from .. (NumKinds - 1) :
        /\ counts[i] >= 2
        /\ \A j \in (i + 1) .. (NumKinds - 1) : counts[j] < 2

NextPair(counts, from) ==
    CHOOSE i \in from .. (NumKinds - 1) :
        /\ counts[i] >= 2
        /\ \A j \in from .. (i - 1) : counts[j] < 2

\* the set search under the pair hypothesis i, on a copy of the counts
pair_hypothesis(counts, i) ==
    find_mentsu_recursive([counts EXCEPT ![i] = @ - 2], <<>>)

\* Case B: one iteration of the loop over pair hypotheses that has a pair to try
PairHypothesis ==
    /\ pc = "pairs"
    /\ HasPairFrom(concealed_counts, idx)
    /\ LET i == NextPair(concealed_counts, idx)
           atama == <<index_to_tile(i), index_to_tile(i)>>
           r == pair_hypothesis(concealed_counts, i)
       IN  IF r.ok /\ Len(r.mentsu) = mentsu_needed
           THEN LET all == final_mentsu \o r.mentsu
                    machi == determine_wait_type(all, atama, input.winning_tile)
                IN  /\ org_result' = mentsu_array(all, atama, input.winning_tile, machi)
                    /\ pc' = "organized"
                    /\ idx' = i
           ELSE /\ idx' = i + 1
                /\ UNCHANGED <<org_result, pc>>
    /\ trace' = Append(trace, "pair")
    /\ UNCHANGED <<input, master_counts, concealed_counts, final_mentsu,
                   yaku_result, agari_result>>

\* an Irregular outcome that carries the concealed counts
organize_failure_concealed(master, concealed, agari_hai) ==
    Irregular(concealed, agari_hai)

\* the outcome when the 4-set-1-pair parse failed
organize_failure(master, concealed, agari_hai) == Irregular(master, agari_hai)

\* no pair hypothesis is left: the hand is handed on as Irregular
ReturnIrregular ==
    /\ pc = "pairs"
    /\ ~HasPairFrom(concealed_counts, idx)
    /\ org_result' = organize_failure(master_counts, concealed_counts,
                                       input.winning_tile)
    /\ pc' = "organized"
    /\ trace' = Append(trace, "irregular")
    /\ UNCHANGED <<input, master_counts, concealed_counts, final_mentsu, idx,
                   yaku_result, agari_result>>

(***************************************************************************)
(* calculate_agari: organize_hand, then check_all_yaku, then               *)
(* calculate_score.  check_all_yaku (the pattern recognizer) returns an    *)
(* error or a YakuResult {hand_structure, yaku_list, num_akadora}; any     *)
(* outcome its contract allows for the organization may be returned.       *)
(***************************************************************************)
YakuResult(hand_structure, yaku_list, num_akadora) ==
    [tag |-> "Ok", hand_structure |-> hand_structure, yaku_list |-> yaku_list,
     num_akadora |-> num_akadora]

NoYaku == Err("No yaku found")

RegularYakuLists == {<<"Riichi", "Dora">>, <<"Pinfu", "MenzenTsumo">>}

check_all_yaku(organization, num_akadora) ==
    IF organization.tag = "YonmentsuIchiatama"
    THEN {NoYaku} \cup
         {YakuResult(organization, yl, num_akadora) : yl \in RegularYakuLists}
    ELSE {NoYaku,
          YakuResult([tag |-> "Chiitoitsu", agari_hai |-> organization.agari_hai,
                      machi |-> "Tanki"], <<"Chiitoitsu">>, num_akadora),
          YakuResult([tag |-> "KokushiMusou", agari_hai |-> organization.agari_hai,
                      machi |-> "KokushiIchimen"], <<"KokushiMusou">>, num_akadora)}

\* organize_hand(input)? on an Err (or a panic): calculate_agari ends with it
OrganizeFailed ==
    /\ pc = "organized"
    /\ org_result.tag \in {"Err", "Abort"}
    /\ agari_result' = org_result
    /\ pc' = "done"
    /\ UNCHANGED <<input, master_counts, concealed_counts, final_mentsu, idx,
                   org_result, yaku_result, trace>>

\* check_all_yaku(organization, player, game, agari_type)?
CheckYaku ==
    /\ pc = "organized"
    /\ org_result.tag \in {"YonmentsuIchiatama", "Irregular"}
    /\ \E out \in check_all_yaku(org_result, input.game_context.num_akadora) :
          /\ yaku_result' = out
          /\ IF out.tag = "Err"
             THEN agari_result' = out /\ pc' = "done"
             ELSE pc' = "recognized" /\ UNCHANGED agari_result
    /\ trace' = Append(trace, "check_all_yaku")
    /\ UNCHANGED <<input, master_counts, concealed_counts, final_mentsu, idx,
                   org_result>>

\* calculate_score(yaku_result, player, game, agari_type)
CalculateScore ==
    /\ pc = "recognized"
    /\ \E build \in Builds :
         LET score == calculate_score(yaku_result, input.player_context,
                                      input.game_context, input.agari_type, build)
         IN  agari_result' = IF score = Abort THEN Abort
                             ELSE [tag |-> "Ok", score |-> score]
    /\ pc' = "done"
    /\ trace' = Append(trace, "calculate_score")
    /\ UNCHANGED <<input, master_counts, concealed_counts, final_mentsu, idx,
                   org_result, yaku_result>>

(***************************************************************************)
(* Inputs                                                                  *)
(***************************************************************************)
Ton == 1

Nan == 2

PlayerContext(jikaze, is_oya, is_menzen) ==
    [jikaze |-> jikaze, is_oya |-> is_oya, is_riichi |-> FALSE,
     is_daburu_riichi |-> FALSE, is_ippatsu |-> FALSE, is_menzen |-> is_menzen]

GameContext(bakaze, honba, num_akadora) ==
    [bakaze |-> bakaze, honba |-> honba, num_akadora |-> num_akadora,
     is_tenhou |-> FALSE, is_chiihou |-> FALSE, is_renhou |-> FALSE,
     is_haitei |-> FALSE, is_houtei |-> FALSE, is_rinshan |-> FALSE,
     is_chankan |-> FALSE]

UserInput(hand_tiles, winning_tile, open_melds, closed_kans, player, game, agari_type) ==
    [hand_tiles |-> hand_tiles, winning_tile |-> winning_tile,
     open_melds |-> open_melds, closed_kans |-> closed_kans,
     player_context |-> player, game_context |-> game, agari_type |-> agari_type]

Min(a, b) == IF a < b THEN a ELSE b

Copies(t, n) == [k \in 1 .. n |-> t]

\* the tile lists of n tiles over the kinds lo..hi, in index order, at most maxc of a kind
RECURSIVE SortedHands(_, _, _, _)
SortedHands(lo, hi, n, maxc) ==
    IF lo > hi THEN (IF n = 0 THEN {<<>>} ELSE {})
    ELSE UNION {{Copies(index_to_tile(lo), c) \o rest :
                    rest \in SortedHands(lo + 1, hi, n - c, maxc)} :
                c \in 0 .. Min(maxc, n)}

\* the number of consecutive tile kinds the enumerated closed hands draw from
RunLen == 6

\* where the runs of kinds start: 5m (across the 9m/1p border) and 7s (into the honors)
RunStarts == {4, 24}

TilesIn(hand) == {hand[k] : k \in 1 .. Len(hand)}

\* closed 14-tile hands, every one over a run of kinds, won on their first tile
ClosedHandInputs ==
    {UserInput(h, h[1], <<>>, <<>>, PlayerContext(Nan, FALSE, TRUE),
               GameContext(Ton, 0, 0), "Tsumo") :
        h \in UNION {SortedHands(lo, lo + RunLen - 1, 14, 4) : lo \in RunStarts}}

\* where the runs of the hands won on any tile start: 5m
WaitRunStarts == {4}

\* the same over runs one kind shorter, won on any of their tiles
ClosedWaitInputs ==
    UNION {{UserInput(h, w, <<>>, <<>>, PlayerContext(Nan, FALSE, TRUE),
                      GameContext(Ton, 0, 0), "Ron") : w \in TilesIn(h)} :
           h \in UNION {SortedHands(lo, lo + RunLen - 2, 14, 4) : lo \in WaitRunStarts}}

\* the program's limit on declared calls (closed kans plus open melds)
MaxMelds == 4

OpenMeldInput(mentsu_type, representative_tile) ==
    [mentsu_type |-> mentsu_type, representative_tile |-> representative_tile]

\* the declared calls the enumerated inputs choose from
ClosedKanOptions == {<<"Sangen", 1>>, <<"Kaze", 1>>}

OpenMeldOptions ==
    {OpenMeldInput("Koutsu", <<"Manzu", 9>>),
     OpenMeldInput("Shuntsu", <<"Manzu", 6>>),
     OpenMeldInput("Kantsu", <<"Manzu", 8>>)}

SeqsOfLen(S, n) == [1 .. n -> S]

\* the tiles a declared call takes from the hand
TilesOfOpenMeld(meld) ==
    IF meld.mentsu_type = "Koutsu" THEN Copies(meld.representative_tile, 3)
    ELSE IF meld.mentsu_type = "Kantsu" THEN Copies(meld.representative_tile, 4)
    ELSE LET i == tile_to_index(meld.representative_tile)
         IN  <<index_to_tile(i), index_to_tile(i + 1), index_to_tile(i + 2)>>

RECURSIVE TilesOfClosedKans(_)
TilesOfClosedKans(kans) ==
    IF kans = <<>> THEN <<>>
    ELSE Copies(Head(kans), 4) \o TilesOfClosedKans(Tail(kans))

RECURSIVE TilesOfOpenMelds(_)
TilesOfOpenMelds(melds) ==
    IF melds = <<>> THEN <<>>
    ELSE TilesOfOpenMeld(Head(melds)) \o TilesOfOpenMelds(Tail(melds))

\* a count vector as a tile list in index order
RECURSIVE TilesOfCounts(_, _)
TilesOfCounts(counts, i) ==
    IF i = NumKinds THEN <<>>
    ELSE Copies(index_to_tile(i), counts[i]) \o TilesOfCounts(counts, i + 1)

SortTiles(tiles) == TilesOfCounts(CountTiles(tiles, ZeroCounts, "release").counts, 0)

\* the kinds the concealed rest of a hand with declared calls draws from: 6m..
RestStart == tile_to_index(<<"Manzu", 6>>)

RestLen == RunLen \div 2

\* hands with up to MaxMelds declared calls: the tiles of the calls plus a
\* concealed rest of the size that completes the hand, won on any of their tiles
CalledHands ==
    UNION {UNION {{[kans |-> kans, melds |-> melds,
                    hand |-> SortTiles(TilesOfClosedKans(kans)
                                       \o TilesOfOpenMelds(melds) \o rest)] :
                     rest \in SortedHands(RestStart, RestStart + RestLen - 1,
                                          3 * (MaxMelds - (k + m)) + 2, 4)} :
                  kans \in SeqsOfLen(ClosedKanOptions, k),
                  melds \in SeqsOfLen(OpenMeldOptions, m)} :
           k \in 0 .. MaxMelds, m \in 0 .. MaxMelds}

\* a tile no enumerated hand holds
AbsentTile == <<"Souzu", 1>>

CalledInputs ==
    UNION {{UserInput(c.hand, w, c.melds, c.kans,
                      PlayerContext(Nan, FALSE, c.melds = <<>>),
                      GameContext(Ton, 0, 0), "Ron") :
               w \in TilesIn(c.hand) \cup {AbsentTile}} :
           c \in CalledHands}

\* every combination of the declared flags, seat and win method, on a closed
\* hand (678m 678m 789m 999m + 1p1p) and on the same hand with 999m called
FlagHand ==
    <<<<"Manzu", 6>>, <<"Manzu", 6>>, <<"Manzu", 7>>, <<"Manzu", 7>>, <<"Manzu", 7>>,
      <<"Manzu", 8>>, <<"Manzu", 8>>, <<"Manzu", 8>>, <<"Manzu", 9>>, <<"Manzu", 9>>,
      <<"Manzu", 9>>, <<"Manzu", 9>>, <<"Pinzu", 1>>, <<"Pinzu", 1>>>>

FlagPlayers ==
    [jikaze : {Nan}, is_oya : BOOLEAN, is_riichi : BOOLEAN,
     is_daburu_riichi : BOOLEAN, is_ippatsu : BOOLEAN, is_menzen : BOOLEAN]

FlagGames ==
    [bakaze : {Ton}, honba : {0}, num_akadora : {0},
     is_tenhou : BOOLEAN, is_chiihou : BOOLEAN, is_renhou : BOOLEAN,
     is_haitei : BOOLEAN, is_houtei : BOOLEAN, is_rinshan : BOOLEAN,
     is_chankan : BOOLEAN]

FlagMelds == {<<>>, <<OpenMeldInput("Koutsu", <<"Manzu", 9>>)>>}

\* one call more than the program allows: every split into closed kans and open
\* melds, on the tiles of the calls plus a pair, on the tiles of the first
\* MaxMelds calls plus a pair, and on a closed 14-tile hand
OverCalledHands(kans, melds) ==
    {SortTiles(TilesOfClosedKans(kans) \o TilesOfOpenMelds(melds)
               \o Copies(<<"Pinzu", 1>>, 2)),
     SortTiles(SubSeq(TilesOfClosedKans(kans) \o TilesOfOpenMelds(melds), 1, 3 * MaxMelds)
               \o Copies(<<"Pinzu", 1>>, 2)),
     FlagHand}

IsOverCalledInput(inp) ==
    \E k \in 0 .. (MaxMelds + 1), menzen \in BOOLEAN :
        \E kans \in SeqsOfLen(ClosedKanOptions, k),
           melds \in SeqsOfLen(OpenMeldOptions, MaxMelds + 1 - k) :
            \E h \in OverCalledHands(kans, melds) :
                inp = UserInput(h, h[1], melds, kans, PlayerContext(Nan, FALSE, menzen),
                                GameContext(Ton, 0, 0), "Ron")

\* tile lists of every length up to 14 + MaxMelds + 1 under up to MaxMelds
\* declared calls: the tiles of the calls plus the first tiles of FlagHand
IsMiscountedInput(inp) ==
    \E k \in 0 .. MaxMelds, m \in 0 .. MaxMelds, e \in 1 .. Len(FlagHand) :
        /\ k + m <= MaxMelds
        /\ \E kans \in SeqsOfLen(ClosedKanOptions, k), melds \in SeqsOfLen(OpenMeldOptions, m) :
              LET calls == TilesOfClosedKans(kans) \o TilesOfOpenMelds(melds)
                  h == SortTiles(calls \o SubSeq(FlagHand, 1, e))
              IN  /\ Len(calls) + e <= 14 + MaxMelds + 1
                  /\ inp = UserInput(h, h[1], melds, kans,
                                     PlayerContext(Nan, FALSE, melds = <<>>),
                                     GameContext(Ton, 0, 0), "Ron")

\* the hands the flags are combined with: FlagHand closed or with 999m called,
\* FlagHand won on a tile it does not hold, and FlagHand plus 1p with 9999m a
\* closed kan
FlagCases ==
    {[hand |-> FlagHand, winning_tile |-> w, melds |-> melds, kans |-> <<>>] :
        w \in {<<"Manzu", 6>>}, melds \in FlagMelds}
    \cup {[hand |-> FlagHand, winning_tile |-> AbsentTile, melds |-> <<>>, kans |-> <<>>],
          [hand |-> FlagHand \o <<<<"Pinzu", 1>>>>, winning_tile |-> <<"Manzu", 6>>,
           melds |-> <<>>, kans |-> <<<<"Manzu", 9>>>>]}

\* declared calls the hand may not cover: FlagHand (66m 777m 888m 9999m 11p)
\* with one or two open melds, and FlagHand plus 1p with a closed kan or an
\* open kan and at most one more open meld
UncoveredMeldOptions ==
    {OpenMeldInput("Koutsu", <<"Manzu", 9>>), OpenMeldInput("Koutsu", <<"Pinzu", 1>>),
     OpenMeldInput("Koutsu", <<"Manzu", 7>>), OpenMeldInput("Shuntsu", <<"Manzu", 6>>),
     OpenMeldInput("Shuntsu", <<"Manzu", 7>>), OpenMeldInput("Shuntsu", <<"Manzu", 8>>),
     OpenMeldInput("Shuntsu", <<"Manzu", 9>>), OpenMeldInput("Shuntsu", <<"Pinzu", 1>>),
     OpenMeldInput("Shuntsu", <<"Kaze", 1>>)}

UncoveredCases ==
    {[hand |-> FlagHand, melds |-> melds, kans |-> <<>>] :
        melds \in SeqsOfLen(UncoveredMeldOptions, 1) \cup SeqsOfLen(UncoveredMeldOptions, 2)}
    \cup {[hand |-> FlagHand \o <<<<"Pinzu", 1>>>>, melds |-> melds, kans |-> kans] :
             kans \in {<<<<"Manzu", 9>>>>, <<<<"Manzu", 8>>>>},
             melds \in {<<>>} \cup SeqsOfLen(UncoveredMeldOptions, 1)}
    \cup {[hand |-> FlagHand \o <<<<"Pinzu", 1>>>>,
           melds |-> <<OpenMeldInput("Kantsu", t)>> \o melds, kans |-> <<>>] :
             t \in {<<"Manzu", 9>>, <<"Manzu", 8>>},
             melds \in {<<>>} \cup SeqsOfLen(UncoveredMeldOptions, 1)}

IsUncoveredInput(inp) ==
    \E c \in UncoveredCases :
        inp = UserInput(c.hand, <<"Manzu", 6>>, c.melds, c.kans,
                        PlayerContext(Nan, FALSE, c.melds = <<>>),
                        GameContext(Ton, 0, 0), "Ron")

\* the largest declared red-five count enumerated
MaxAkadora == 6

\* closed hands holding no, two and five rank-5 tiles
AkadoraHands ==
    {FlagHand,
     SortTiles(Copies(<<"Manzu", 5>>, 2) \o Copies(<<"Manzu", 6>>, 3)
               \o Copies(<<"Manzu", 7>>, 3) \o Copies(<<"Manzu", 8>>, 3)
               \o Copies(<<"Manzu", 9>>, 3)),
     SortTiles(Copies(<<"Manzu", 5>>, 3) \o Copies(<<"Pinzu", 5>>, 2)
               \o Copies(<<"Manzu", 6>>, 2) \o Copies(<<"Manzu", 7>>, 3)
               \o Copies(<<"Manzu", 8>>, 3) \o Copies(<<"Manzu", 9>>, 1))}

\* every declared red-five count on each of them, won on a tile held or not
IsAkadoraInput(inp) ==
    \E h \in AkadoraHands, na \in 0 .. MaxAkadora :
      \E w \in {h[1], AbsentTile} :
        inp = UserInput(h, w, <<>>, <<>>, PlayerContext(Nan, FALSE, TRUE),
                        GameContext(Ton, 0, na), "Tsumo")

\* tile lists holding more copies of a kind than a u8 counter counts (and one
\* holding as many as it counts): 255 and 256 x 1m, 300 x Pei, 257 x 5p + 9m
OverflowHands ==
    {Copies(<<"Manzu", 1>>, U8 - 1), Copies(<<"Manzu", 1>>, U8),
     Copies(<<"Kaze", 4>>, 300),
     Copies(<<"Pinzu", 5>>, U8 + 1) \o <<<<"Manzu", 9>>>>}

\* each of them with no call or one call too many, with consistent flags or
\* riichi and double riichi together, with no or a red five declared, won on
\* a tile held or not
IsOverflowInput(inp) ==
    \E h \in OverflowHands, kans \in {<<>>, Copies(<<"Manzu", 1>>, MaxMelds + 1)},
       riichi \in BOOLEAN, na \in {0, 1}, w \in {<<"Manzu", 1>>, AbsentTile} :
        inp = UserInput(h, w, <<>>, kans,
                        [PlayerContext(Nan, FALSE, TRUE) EXCEPT !.is_riichi = riichi,
                                                               !.is_daburu_riichi = riichi],
                        GameContext(Ton, 0, na), "Ron")

IsFlagInput(inp) ==
    \E c \in FlagCases, p \in FlagPlayers, g \in FlagGames, a \in {"Tsumo", "Ron"} :
        inp = UserInput(c.hand, c.winning_tile, c.melds, c.kans, p, g, a)

IsInput(inp) ==
    \/ inp \in ClosedHandInputs
    \/ inp \in ClosedWaitInputs
    \/ inp \in CalledInputs
    \/ IsFlagInput(inp)
    \/ IsOverCalledInput(inp)
    \/ IsMiscountedInput(inp)
    \/ IsAkadoraInput(inp)
    \/ IsUncoveredInput(inp)
    \/ IsOverflowInput(inp)

Init ==
    /\ IsInput(input)
    /\ pc = "start"
    /\ master_counts = ZeroCounts
    /\ concealed_counts = ZeroCounts
    /\ final_mentsu = <<>>
    /\ idx = 0
    /\ org_result = None
    /\ yaku_result = None
    /\ agari_result = None
    /\ trace = <<>>

Next ==
    \/ Validate
    \/ ClosedKan
    \/ OpenMeld
    \/ CaseA
    \/ PairHypothesis
    \/ ReturnIrregular
    \/ OrganizeFailed
    \/ CheckYaku
    \/ CalculateScore

Spec == Init /\ [][Next]_vars

(***************************************************************************)
(* wait_analyzer::determine_wait_type on its own: any four sets as the     *)
(* organizer builds them, any pair, any winning tile.                      *)
(***************************************************************************)
WaitSets ==
    {Shuntsu(index_to_tile(i), index_to_tile(i + 1), index_to_tile(i + 2), FALSE) :
        i \in {0, 1, 6, 9}}
    \cup {Koutsu(<<"Manzu", 3>>, FALSE), Kantsu(<<"Manzu", 7>>, TRUE),
          Koutsu(<<"Kaze", 1>>, TRUE)}

WaitPairs == {<<"Manzu", 3>>, <<"Kaze", 1>>}

WaitWinningTiles ==
    {<<"Manzu", 1>>, <<"Manzu", 2>>, <<"Manzu", 3>>, <<"Manzu", 4>>, <<"Manzu", 7>>,
     <<"Manzu", 8>>, <<"Manzu", 9>>, <<"Pinzu", 1>>, <<"Pinzu", 3>>, <<"Kaze", 1>>,
     <<"Sangen", 1>>}

InitWait ==
    /\ \E m \in [1 .. 4 -> WaitSets], p \in WaitPairs, w \in WaitWinningTiles :
          input = [mentsu |-> m, atama |-> <<p, p>>, agari_hai |-> w]
    /\ pc = "wait_call"
    /\ master_counts = ZeroCounts
    /\ concealed_counts = ZeroCounts
    /\ final_mentsu = <<>>
    /\ idx = 0
    /\ org_result = None
    /\ yaku_result = None
    /\ agari_result = None
    /\ trace = <<>>

MachiResult(machi) == IF machi = "Abort" THEN Abort ELSE [tag |-> "Machi", machi |-> machi]

DetermineWait ==
    /\ pc = "wait_call"
    /\ org_result' = MachiResult(determine_wait_type(input.mentsu, input.atama,
                                                     input.agari_hai))
    /\ pc' = "wait_done"
    /\ trace' = Append(trace, "determine_wait_type")
    /\ UNCHANGED <<input, master_counts, concealed_counts, final_mentsu, idx,
                   yaku_result, agari_result>>

NextWait == DetermineWait

SpecWait == InitWait /\ [][NextWait]_vars

(***************************************************************************)
(* score_calculator::calculate_score on its own: any recognized result,    *)
(* any player and game context, either win method.                         *)
(***************************************************************************)
AllYaku ==
    {"Riichi", "Ippatsu", "MenzenTsumo", "Pinfu", "Iipeikou", "HaiteiRaoyue",
     "HouteiRaoyui", "RinshanKaihou", "Chankan", "Tanyao", "YakuhaiJikaze",
     "YakuhaiBakaze", "YakuhaiSangenpai", "DaburuRiichi", "Chiitoitsu", "Toitoi",
     "Sanankou", "SanshokuDoukou", "Sankantsu", "Shousangen", "Honroutou",
     "SanshokuDoujun", "Ittsu", "Chanta", "Ryanpeikou", "Junchan", "Honitsu",
     "Chinitsu", "Dora", "UraDora", "AkaDora", "SuuankouTanki",
     "KokushiMusouJusanmen", "JunseiChuurenPoutou", "Tenhou", "Chiihou", "Renhou",
     "Daisangen", "Suuankou", "Daisuushi", "Shousuushi", "Tsuuiisou", "Chinroutou",
     "Ryuuiisou", "Suukantsu", "KokushiMusou", "ChuurenPoutou"}

\* one set for each entry of the fu table, and a sequence
FuSets ==
    {Shuntsu(<<"Manzu", 2>>, <<"Manzu", 3>>, <<"Manzu", 4>>, FALSE)}
    \cup {Koutsu(t, o) : t \in {<<"Pinzu", 5>>, <<"Souzu", 9>>}, o \in BOOLEAN}
    \cup {Kantsu(t, o) : t \in {<<"Pinzu", 6>>, <<"Sangen", 2>>}, o \in BOOLEAN}

FuSecondSets ==
    {Shuntsu(<<"Manzu", 6>>, <<"Manzu", 7>>, <<"Manzu", 8>>, TRUE),
     Koutsu(<<"Manzu", 8>>, FALSE), Kantsu(<<"Kaze", 3>>, TRUE)}

FuLastSets ==
    {Shuntsu(<<"Souzu", 1>>, <<"Souzu", 2>>, <<"Souzu", 3>>, TRUE),
     Kantsu(<<"Kaze", 4>>, FALSE)}

FuPairs == {<<"Manzu", 5>>, <<"Sangen", 1>>, <<"Kaze", Ton>>, <<"Kaze", Nan>>}

\* enum Machi
Machis ==
    {"Ryanmen", "Tanki", "Penchan", "Kanchan", "Shanpon", "KokushiIchimen",
     "KokushiJusanmen", "Kyuumen"}

FuHands ==
    {AgariHand(<<a, b, Shuntsu(<<"Pinzu", 1>>, <<"Pinzu", 2>>, <<"Pinzu", 3>>, FALSE), c>>,
               <<p, p>>, p, m) :
        a \in FuSets, b \in FuSecondSets, c \in FuLastSets, p \in FuPairs, m \in Machis}

ChiitoitsuStructure ==
    [tag |-> "Chiitoitsu", agari_hai |-> <<"Manzu", 1>>, machi |-> "Tanki"]

KokushiStructure ==
    [tag |-> "KokushiMusou", agari_hai |-> <<"Manzu", 1>>, machi |-> "KokushiIchimen"]

ChuurenStructure(hand) == [tag |-> "ChuurenPoutou", hand |-> hand, is_junsei |-> FALSE]

\* the pattern lists the fu cases are run with
FuLists == {<<"Riichi">>, <<"Pinfu", "MenzenTsumo">>, <<"Toitoi", "Chiitoitsu">>}

\* the patterns the longer lists are drawn from
CoreYaku == {"Chinitsu", "Dora", "Chiitoitsu", "Daisangen", "SuuankouTanki"}

\* the longest pattern list enumerated over CoreYaku
MaxYakuLen == 3

\* the largest repeat counter enumerated
MaxHonba == 2

\* all sixteen limit patterns at once: 19 yakuman, han 13 * 19 = 247
AllLimitPatterns ==
    <<"SuuankouTanki", "KokushiMusouJusanmen", "JunseiChuurenPoutou", "Tenhou",
      "Chiihou", "Renhou", "Daisangen", "Suuankou", "Daisuushi", "Shousuushi",
      "Tsuuiisou", "Chinroutou", "Ryuuiisou", "Suukantsu", "KokushiMusou",
      "ChuurenPoutou">>

\* lists of limit patterns, and a value triplet listed once for each triplet
MoreLists ==
    {AllLimitPatterns, <<"KokushiMusou", "Tenhou">>,
     <<"Dora", "KokushiMusouJusanmen", "UraDora">>,
     <<"Tsuuiisou", "Chiitoitsu", "AkaDora">>,
     <<"YakuhaiSangenpai", "YakuhaiSangenpai">>,
     <<"YakuhaiJikaze", "YakuhaiSangenpai", "YakuhaiBakaze", "Dora">>}

PayLists ==
    {<<>>} \cup {<<y>> : y \in AllYaku}
    \cup UNION {SeqsOfLen(CoreYaku, n) : n \in 2 .. MaxYakuLen}
    \cup MoreLists

PayHand ==
    AgariHand(<<Koutsu(<<"Pinzu", 5>>, TRUE), Kantsu(<<"Sangen", 2>>, FALSE),
                Shuntsu(<<"Pinzu", 1>>, <<"Pinzu", 2>>, <<"Pinzu", 3>>, FALSE),
                Shuntsu(<<"Souzu", 1>>, <<"Souzu", 2>>, <<"Souzu", 3>>, FALSE)>>,
              <<<<"Kaze", Ton>>, <<"Kaze", Ton>>>>, <<"Pinzu", 2>>, "Kanchan")

PayStructures ==
    {Regular(PayHand), ChuurenStructure(PayHand), ChiitoitsuStructure, KokushiStructure}

ScoreInput(player, game, agari_type) ==
    [player_context |-> player, game_context |-> game, agari_type |-> agari_type]

\* every hand shape, each wind, few lists
IsFuCase(inp, yr) ==
    \E h \in FuHands, yl \in FuLists, j \in {Ton, Nan}, menzen \in BOOLEAN,
       a \in {"Tsumo", "Ron"} :
          /\ inp = ScoreInput(PlayerContext(j, FALSE, menzen), GameContext(Ton, 0, 0), a)
          /\ yr = YakuResult(Regular(h), yl, 0)

\* every list, each seat and win method, few hand shapes
IsPayCase(inp, yr) ==
    \E hs \in PayStructures, yl \in PayLists, oya \in BOOLEAN, menzen \in BOOLEAN,
       honba \in 0 .. MaxHonba, na \in {0, 1}, a \in {"Tsumo", "Ron"} :
          /\ inp = ScoreInput(PlayerContext(IF oya THEN Ton ELSE Nan, oya, menzen),
                              GameContext(Ton, honba, na), a)
          /\ yr = YakuResult(hs, yl, na)

\* pattern lists whose han does not fit a u8 (and two that just fit): 20 and
\* 19 yakuman as 10 x SuuankouTanki, 20 and 19 x Daisangen, 43 and 52 x
\* Chinitsu (6 han closed, 5 open), 255 and 256 x Riichi
OverflowLists ==
    {Copies("SuuankouTanki", 10), Copies("Daisangen", 20), Copies("Daisangen", 19),
     Copies("Chinitsu", 43), Copies("Chinitsu", 52),
     Copies("Riichi", U8 - 1), Copies("Riichi", U8)}

\* one pattern and so many bonus tiles that the han of the regular path does
\* not fit a u8 (and lists that just fit): Riichi with 254 and 255 Dora,
\* Chinitsu (6 han closed, 5 open) with 250 UraDora; and a limit pattern with
\* 300 Dora
BonusLists ==
    {<<"Riichi">> \o Copies("Dora", U8 - 2), <<"Riichi">> \o Copies("Dora", U8 - 1),
     <<"Chinitsu">> \o Copies("UraDora", U8 - 6),
     <<"Daisangen">> \o Copies("Dora", 300)}

\* each of them, each seat, concealed flag and win method
IsBonusCase(inp, yr) ==
    \E yl \in BonusLists, oya \in BOOLEAN, menzen \in BOOLEAN,
       honba \in 0 .. MaxHonba, a \in {"Tsumo", "Ron"} :
          /\ inp = ScoreInput(PlayerContext(IF oya THEN Ton ELSE Nan, oya, menzen),
                              GameContext(Ton, honba, 0), a)
          /\ yr = YakuResult(Regular(PayHand), yl, 0)

\* each of them, with and without a bonus tile appended, each seat, concealed
\* flag and win method
IsOverflowCase(inp, yr) ==
    \E yl \in OverflowLists, bonus \in {<<>>, <<"Dora">>}, oya \in BOOLEAN,
       menzen \in BOOLEAN, honba \in 0 .. MaxHonba, a \in {"Tsumo", "Ron"} :
          /\ inp = ScoreInput(PlayerContext(IF oya THEN Ton ELSE Nan, oya, menzen),
                              GameContext(Ton, honba, 0), a)
          /\ yr = YakuResult(Regular(PayHand), yl \o bonus, 0)

\* a pattern list whose payments do not fit a u32: 89600 yakuman, 716800000
\* basic points
PointOverflowList == Copies("SuuankouTanki", 44800)

\* that list won by the dealer's self-draw, whose total is three times
\* 1433600000 and the repeat bonus
IsPointOverflowCase(inp, yr) ==
    \E hs \in {Regular(PayHand), ChiitoitsuStructure}, menzen \in BOOLEAN,
       honba \in 0 .. MaxHonba :
          /\ inp = ScoreInput(PlayerContext(Ton, TRUE, menzen),
                              GameContext(Ton, honba, 0), "Tsumo")
          /\ yr = YakuResult(hs, PointOverflowList, 0)

InitScore ==
    /\ \/ IsFuCase(input, yaku_result)
       \/ IsPayCase(input, yaku_result)
       \/ IsOverflowCase(input, yaku_result)
       \/ IsBonusCase(input, yaku_result)
       \/ IsPointOverflowCase(input, yaku_result)
    /\ pc = "recognized"
    /\ master_counts = ZeroCounts
    /\ concealed_counts = ZeroCounts
    /\ final_mentsu = <<>>
    /\ idx = 0
    /\ org_result = None
    /\ agari_result = None
    /\ trace = <<>>

NextScore == CalculateScore

SpecScore == InitScore /\ [][NextScore]_vars

(***************************************************************************)
(* score_calculator::calculate_basic_points on its own: every u8 han and   *)
(* every u8 fu.                                                            *)
(***************************************************************************)
InitPoints ==
    /\ \E han \in 0 .. (U8 - 1), fu \in 0 .. (U8 - 1) : input = [han |-> han, fu |-> fu]
    /\ pc = "points_call"
    /\ master_counts = ZeroCounts
    /\ concealed_counts = ZeroCounts
    /\ final_mentsu = <<>>
    /\ idx = 0
    /\ org_result = None
    /\ yaku_result = None
    /\ agari_result = None
    /\ trace = <<>>

BasicPoints ==
    /\ pc = "points_call"
    /\ agari_result' = [tag |-> "Points",
                        points |-> calculate_basic_points(input.han, input.fu)]
    /\ pc' = "points_done"
    /\ trace' = Append(trace, "calculate_basic_points")
    /\ UNCHANGED <<input, master_counts, concealed_counts, final_mentsu, idx,
                   org_result, yaku_result>>

NextPoints == BasicPoints

SpecPoints == InitPoints /\ [][NextPoints]_vars

(***************************************************************************)
(* Reference definitions for the properties                                *)
(***************************************************************************)
AllTiles ==
    ({"Manzu", "Pinzu", "Souzu"} \X (1 .. 9)) \cup ({"Kaze"} \X (1 .. 4))
    \cup ({"Sangen"} \X (1 .. 3))

\* how many times a tile occurs in a tile list
TileCount(tiles, t) == Cardinality({k \in 1 .. Len(tiles) : tiles[k] = t})

\* how many copies of a tile a set holds: 4 for a Quad, 3 for a Triplet,
\* one per matching position of a Sequence
SetTileCount(m, t) ==
    IF m.mentsu_type = "Kantsu" THEN (IF m.tiles[1] = t THEN 4 ELSE 0)
    ELSE IF m.mentsu_type = "Koutsu" THEN (IF m.tiles[1] = t THEN 3 ELSE 0)
    ELSE Cardinality({k \in 1 .. 3 : m.tiles[k] = t})

DecompositionTileCount(hand, t) ==
    SetTileCount(hand.mentsu[1], t) + SetTileCount(hand.mentsu[2], t)
    + SetTileCount(hand.mentsu[3], t) + SetTileCount(hand.mentsu[4], t)
    + Cardinality({k \in 1 .. 2 : hand.atama[k] = t})

IsRegular == org_result.tag = "YonmentsuIchiatama"

IsIrregular == org_result.tag = "Irregular"

NumCalls == Len(input.closed_kans) + Len(input.open_melds)

PairsTried == Cardinality({k \in 1 .. Len(trace) : trace[k] = "pair"})

\* the count vector of a tile list, kind by kind
RefCounts(tiles) == [k \in Kinds |-> TileCount(tiles, index_to_tile(k))]

\* a count vector splits into sequences in one way at most: as many start at
\* its lowest kind as that kind has copies
RECURSIVE SequencesOnly(_, _)
SequencesOnly(c, i) ==
    IF i = NumKinds THEN TRUE
    ELSE IF c[i] = 0 THEN SequencesOnly(c, i + 1)
    ELSE /\ index_to_tile(i)[1] \in {"Manzu", "Pinzu", "Souzu"}
         /\ index_to_tile(i)[2] <= 7
         /\ c[i + 1] >= c[i]
         /\ c[i + 2] >= c[i]
         /\ SequencesOnly([c EXCEPT ![i] = 0, ![i + 1] = @ - c[i],
                                    ![i + 2] = @ - c[i]], i + 1)

\* a pair plus Triplets and same-suit Sequences: some kind gives the pair, some
\* kinds give a Triplet each, and what is left splits into sequences
Partitionable(c) ==
    \E p \in {k \in Kinds : c[k] >= 2} :
        LET rest == [c EXCEPT ![p] = @ - 2] IN
        \E T \in SUBSET {k \in Kinds : rest[k] >= 3} :
            SequencesOnly([k \in Kinds |-> IF k \in T THEN rest[k] - 3 ELSE rest[k]], 0)

\* what the validator is to answer: the first failing check, or "Ok"
ValidationVerdict ==
    LET gs == validate_game_state(input.player_context, input.game_context,
                                  input.agari_type, input)
    IN  IF gs # "Ok" THEN gs
        ELSE validate_hand_composition(input, RefCounts(input.hand_tiles))

\* the tiles the declared calls take, and whether the hand holds them all
CallTiles == TilesOfClosedKans(input.closed_kans) \o TilesOfOpenMelds(input.open_melds)

CallsPresent ==
    /\ \A k \in 1 .. Len(input.open_melds) :
          input.open_melds[k].mentsu_type = "Shuntsu" =>
              /\ input.open_melds[k].representative_tile[1] \in {"Manzu", "Pinzu", "Souzu"}
              /\ input.open_melds[k].representative_tile[2] <= 7
    /\ \A t \in AllTiles : TileCount(CallTiles, t) <= TileCount(input.hand_tiles, t)

RefConcealed ==
    [k \in Kinds |-> TileCount(input.hand_tiles, index_to_tile(k))
                     - TileCount(CallTiles, index_to_tile(k))]

\* a set holds a tile as the repeated tile of a Triplet or Quad, or as one of
\* the three tiles of a Sequence
SetHolds(m, t) ==
    IF m.mentsu_type = "Shuntsu" THEN \E k \in 1 .. 3 : m.tiles[k] = t
    ELSE m.tiles[1] = t

SetsHolding(mentsu, t) == {k \in 1 .. Len(mentsu) : SetHolds(mentsu[k], t)}

(***************************************************************************)
(* Properties of organize_hand and calculate_agari (specification Spec)    *)
(***************************************************************************)

\* C1: in every Regular result the tiles of the four sets (3 for a Sequence or
\* Triplet, 4 for a Quad) plus the two pair tiles are exactly the tiles of
\* input.hand_tiles, tile by tile.
C1_RoundTrip ==
    IsRegular =>
        \A t \in AllTiles :
            DecompositionTileCount(org_result.hand, t) = TileCount(input.hand_tiles, t)

\* a Regular result holding a Quad, a Sequence and a Triplet
C1_Witness ==
    /\ IsRegular
    /\ \E k \in 1 .. 4 : org_result.hand.mentsu[k].mentsu_type = "Kantsu"
    /\ \E k \in 1 .. 4 : org_result.hand.mentsu[k].mentsu_type = "Shuntsu"
    /\ \E k \in 1 .. 4 : org_result.hand.mentsu[k].mentsu_type = "Koutsu"

ClosedValidHand ==
    /\ input.closed_kans = <<>>
    /\ input.open_melds = <<>>
    /\ Len(input.hand_tiles) = 14
    /\ \A t \in AllTiles : TileCount(input.hand_tiles, t) <= 4
    /\ ValidationVerdict = "Ok"

\* C2: for a 14-tile hand with no declared calls, at most 4 of a kind and
\* consistent flags, organize_hand returns Regular if and only if the tiles
\* split into a pair and four sets (Triplets or same-suit Sequences), and
\* Irregular otherwise.
C2_Exhaustive ==
    (pc = "organized" /\ ClosedValidHand) =>
        IF Partitionable(RefCounts(input.hand_tiles)) THEN IsRegular ELSE IsIrregular

\* a closed hand found Regular after an earlier pair hypothesis failed
C2_Witness ==
    /\ pc = "organized"
    /\ ClosedValidHand
    /\ IsRegular
    /\ PairsTried >= 2

StageRank(e) ==
    CASE e = "validate" -> 1
      [] e = "closed_kan" -> 2
      [] e = "open_meld" -> 3
      [] e = "case_a" -> 4
      [] e = "pair" -> 5
      [] e = "irregular" -> 6
      [] e = "check_all_yaku" -> 7
      [] e = "calculate_score" -> 8

Once(e) == Cardinality({k \in 1 .. Len(trace) : trace[k] = e}) <= 1

\* the counting loop of step 1 has aborted: validate_input was never called
CountingAborted == trace = <<"validate">> /\ org_result = Abort

\* C3: the stages run in the order validate, decompose, recognize, score; and
\* when validation fails nothing but validation runs: no declared call is
\* subtracted, no pair hypothesis tried, neither the recognizer nor the score
\* calculator called, and organize_hand and calculate_agari return that error.
C3_Pipeline ==
    /\ trace # <<>> => trace[1] = "validate"
    /\ \A k \in 1 .. (Len(trace) - 1) : StageRank(trace[k]) <= StageRank(trace[k + 1])
    /\ Once("validate") /\ Once("check_all_yaku") /\ Once("calculate_score")
    /\ \A k \in 1 .. Len(trace) :
          trace[k] = "calculate_score" => (k > 1 /\ trace[k - 1] = "check_all_yaku")
    /\ agari_result.tag = "Ok" => trace[Len(trace)] = "calculate_score"
    /\ (pc # "start" /\ ~CountingAborted /\ ValidationVerdict # "Ok") =>
          /\ trace = <<"validate">>
          /\ final_mentsu = <<>>
          /\ concealed_counts = ZeroCounts
          /\ org_result = Err(ValidationVerdict)
          /\ yaku_result = None
          /\ agari_result = IF pc = "done" THEN Err(ValidationVerdict) ELSE None

\* calculate_agari has returned a composition error for a hand with a
\* declared call and a candidate pair
C3_Witness ==
    /\ pc = "done"
    /\ ValidationVerdict = "Invalid hand: Contains 5 or more of a single tile type."
    /\ agari_result = Err(ValidationVerdict)
    /\ input.open_melds # <<>>
    /\ \E t \in AllTiles : TileCount(input.hand_tiles, t) >= 2

\* C4: when the input passes validation, holds all its declared calls, declares
\* fewer than 4 of them and no pair hypothesis leads to a full set search,
\* organize_hand returns Irregular with the counts of all of hand_tiles and the
\* winning tile.
C4_IrregularFallback ==
    (pc = "organized" /\ ValidationVerdict = "Ok" /\ CallsPresent /\ NumCalls < 4
     /\ ~Partitionable(RefConcealed)) =>
        org_result = [tag |-> "Irregular", counts |-> RefCounts(input.hand_tiles),
                      agari_hai |-> input.winning_tile]

\* an Irregular result for a hand with declared calls, after a pair was tried
C4_Witness ==
    /\ pc = "organized"
    /\ IsIrregular
    /\ NumCalls \in 1 .. 3
    /\ PairsTried >= 1
    /\ org_result.counts # concealed_counts

\* C5 as stated: in a Regular result whose winning tile is not the pair tile,
\* exactly one of the four sets holds the winning tile.
C5_ExactlyOneSet ==
    (IsRegular /\ org_result.hand.agari_hai # org_result.hand.atama[1]) =>
        Cardinality(SetsHolding(org_result.hand.mentsu, org_result.hand.agari_hai)) = 1

\* C5 amended: in a Regular result whose winning tile is not the pair tile,
\* at least one of the four sets holds the winning tile.
C5_AtLeastOneSet ==
    (IsRegular /\ org_result.hand.agari_hai # org_result.hand.atama[1]) =>
        Cardinality(SetsHolding(org_result.hand.mentsu, org_result.hand.agari_hai)) >= 1

\* a Regular result whose winning tile is in two sets and not the pair
C5_Witness ==
    /\ IsRegular
    /\ org_result.hand.agari_hai # org_result.hand.atama[1]
    /\ Cardinality(SetsHolding(org_result.hand.mentsu, org_result.hand.agari_hai)) >= 2

(***************************************************************************)
(* Properties of determine_wait_type (specification SpecWait)              *)
(***************************************************************************)
FirstOf(S) == CHOOSE k \in S : \A j \in S : k <= j

\* the wait a set gives: Shanpon for a Triplet or Quad; for a Sequence, Kanchan
\* on its middle tile, Penchan on its lowest tile when its highest is a 9 and on
\* its highest tile when its lowest is a 1, Ryanmen otherwise
RefMachi(S, w) ==
    IF S.mentsu_type \in {"Koutsu", "Kantsu"} THEN "Shanpon"
    ELSE IF w = S.tiles[2] THEN "Kanchan"
    ELSE IF (w = S.tiles[1] /\ S.tiles[3][2] = 9) \/ (w = S.tiles[3] /\ S.tiles[1][2] = 1)
    THEN "Penchan"
    ELSE "Ryanmen"

\* C6: determine_wait_type returns Tanki whenever the winning tile is the pair
\* tile, whatever the four sets are and whether or not some of them hold the
\* winning tile.
C6_PairFirst ==
    (pc = "wait_done" /\ input.agari_hai = input.atama[1]) =>
        org_result = [tag |-> "Machi", machi |-> "Tanki"]

\* the winning tile is the pair tile and two of the sets hold it as well
C6_Witness ==
    /\ pc = "wait_done"
    /\ input.agari_hai = input.atama[1]
    /\ Cardinality(SetsHolding(input.mentsu, input.agari_hai)) >= 2
    /\ org_result.tag = "Machi"

\* C7: when the winning tile is not the pair tile, the result is the wait of
\* the set selected (the first set holding the winning tile): Shanpon, Kanchan,
\* Penchan or Ryanmen by the rule above, never a Kokushi or Kyuumen variant.
C7_WaitOfSet ==
    (pc = "wait_done" /\ input.agari_hai # input.atama[1]
     /\ SetsHolding(input.mentsu, input.agari_hai) # {}) =>
        /\ org_result.tag = "Machi"
        /\ org_result.machi =
              RefMachi(input.mentsu[FirstOf(SetsHolding(input.mentsu, input.agari_hai))],
                       input.agari_hai)
        /\ org_result.machi \in {"Shanpon", "Kanchan", "Penchan", "Ryanmen"}

\* an edge wait on the lowest tile of 789, with a Triplet later in the array
C7_Witness ==
    /\ pc = "wait_done"
    /\ input.agari_hai = <<"Manzu", 7>>
    /\ input.agari_hai # input.atama[1]
    /\ input.mentsu[1].mentsu_type = "Shuntsu"
    /\ input.mentsu[1].tiles[1] = <<"Manzu", 7>>
    /\ input.mentsu[2].mentsu_type = "Kantsu"
    /\ org_result = [tag |-> "Machi", machi |-> "Penchan"]

(***************************************************************************)
(* Properties of calculate_score (specification SpecScore)                 *)
(***************************************************************************)
Scored == pc = "done" /\ agari_result.tag = "Ok"

RoundUpRef(x) == IF x % 100 = 0 THEN x ELSE x + (100 - (x % 100))

DoubleYakuman == {"SuuankouTanki", "KokushiMusouJusanmen", "JunseiChuurenPoutou"}

SingleYakuman ==
    {"Tenhou", "Chiihou", "Renhou", "Daisangen", "Suuankou", "Daisuushi",
     "Shousuushi", "Tsuuiisou", "Chinroutou", "Ryuuiisou", "Suukantsu",
     "KokushiMusou", "ChuurenPoutou"}

\* the occurrences of limit patterns in a list, a double pattern counting 2
YakumanOccurrences(yl) ==
    2 * Cardinality({k \in 1 .. Len(yl) : yl[k] \in DoubleYakuman})
    + Cardinality({k \in 1 .. Len(yl) : yl[k] \in SingleYakuman})

\* the basic points B of a result: 8000 for each occurrence of a limit
\* pattern, else those of its han and fu
BasicPointsOf(r) ==
    IF YakumanOccurrences(r.yaku_list) > 0 THEN 8000 * YakumanOccurrences(r.yaku_list)
    ELSE calculate_basic_points(r.han, r.fu)[1]

C9_Witness ==
    /\ Scored
    /\ ~input.player_context.is_oya
    /\ input.agari_type = "Ron"
    /\ input.game_context.honba >= 2
    /\ YakumanOccurrences(agari_result.score.yaku_list) = 0
    /\ (4 * BasicPointsOf(agari_result.score)) % 100 # 0
    /\ agari_result.score.total_payment > 300 * input.game_context.honba

(***************************************************************************)
(* Properties of calculate_basic_points (specification SpecPoints)         *)
(***************************************************************************)
RECURSIVE Doubled(_, _)
Doubled(x, n) == IF n = 0 THEN x ELSE Doubled(2 * x, n - 1)

\* C10: calculate_basic_points(han, fu) is (8000, Yakuman) for han >= 13,
\* (6000, Sanbaiman) for han 11-12, (4000, Baiman) for han 8-10, (3000, Haneman)
\* for han 6-7, (2000, Mangan) for han 5; below 5 han it is fu * 2^(han+2) with
\* no limit when that is under 2000 and (2000, Mangan) otherwise, so it never
\* exceeds 2000 below 5 han and never decreases as han grows with fu fixed.
C10_BasicPoints ==
    pc = "points_done" =>
        LET han == input.han
            fu == input.fu
            r == agari_result.points
        IN  /\ han >= 13 => r = <<8000, "Yakuman">>
            /\ han \in 11 .. 12 => r = <<6000, "Sanbaiman">>
            /\ han \in 8 .. 10 => r = <<4000, "Baiman">>
            /\ han \in 6 .. 7 => r = <<3000, "Haneman">>
            /\ han = 5 => r = <<2000, "Mangan">>
            /\ han < 5 =>
                  /\ r = IF Doubled(fu, han + 2) < 2000
                         THEN <<Doubled(fu, han + 2), "None">>
                         ELSE <<2000, "Mangan">>
                  /\ r[1] <= 2000
            /\ han < U8 - 1 => r[1] <= calculate_basic_points(han + 1, fu)[1]

\* 4 han 40 fu: 2560 by the formula, capped
C10_Witness ==
    /\ pc = "points_done"
    /\ input = [han |-> 4, fu |-> 40]
    /\ agari_result.points = <<2000, "Mangan">>

(***************************************************************************)
(* Properties of the limit-pattern path (specification SpecScore)          *)
(***************************************************************************)
IsBonusTile(y) == y \in {"Dora", "UraDora", "AkaDora"}

NotBonusTile(y) == ~IsBonusTile(y)

WithoutBonusTiles(yl) == SelectSeq(yl, NotBonusTile)

C11_Witness ==
    /\ Scored
    /\ yaku_result.yaku_list = <<"SuuankouTanki", "Dora", "Daisangen">>
    /\ yaku_result.num_akadora = 1
    /\ ~input.player_context.is_oya
    /\ input.agari_type = "Tsumo"
    /\ input.game_context.honba = 2
    /\ agari_result.score.han = 39
    /\ agari_result.score.total_payment = 96600

(***************************************************************************)
(* Properties of input_validator (specification Spec)                      *)
(***************************************************************************)
StateVerdict ==
    validate_game_state(input.player_context, input.game_context, input.agari_type, input)

\* C12: an input declaring more than 4 calls (closed kans plus open melds) is
\* rejected with an error whatever its tiles are: once organize_hand has
\* returned, its result is the error of the flag checks or else the error of
\* the call limit, no call was subtracted, and the result is never Regular or
\* Irregular.
C12_TooManyCalls ==
    NumCalls > MaxMelds =>
        /\ ~IsRegular /\ ~IsIrregular
        /\ final_mentsu = <<>>
        /\ pc \in {"start", "organized", "done"}
        /\ pc # "start" =>
              org_result =
                 Err(IF StateVerdict # "Ok" THEN StateVerdict
                     ELSE "Invalid hand: More than 4 total melds (kans + open melds) declared.")

\* five declared concealed quads and consistent flags on 256 x 1m: the
\* counting loop aborts under overflow checks and no error is returned
C12_CountOverflow ==
    /\ pc = "done"
    /\ Len(input.closed_kans) = MaxMelds + 1
    /\ StateVerdict = "Ok"
    /\ input.hand_tiles = Copies(<<"Manzu", 1>>, U8)
    /\ agari_result = Abort

\* five declared concealed quads whose tiles the hand holds, consistent flags,
\* rejected
C12_Witness ==
    /\ pc = "organized"
    /\ Len(input.closed_kans) = 5
    /\ StateVerdict = "Ok"
    /\ \A k \in 1 .. 5 : TileCount(input.hand_tiles, input.closed_kans[k]) >= 4
    /\ org_result.tag = "Err"

\* validate_input has returned an error / has returned Ok
Rejected == pc # "start" /\ trace = <<"validate">> /\ org_result.tag = "Err"

Accepted == pc # "start" /\ ~CountingAborted /\ ~Rejected

\* the declared quads: closed kans plus open melds of kan type
DeclaredQuads ==
    Len(input.closed_kans)
    + Cardinality({j \in 1 .. Len(input.open_melds) :
                     input.open_melds[j].mentsu_type = "Kantsu"})

\* C13: every input validate_input accepts has 3*(4-k) + 4k + 2 = 14 + k tiles,
\* k the declared closed kans plus the declared open melds of kan type; every
\* other tile count is rejected; the clause for 14 tiles and no quad admits
\* nothing the formula does not.
C13_TileCount ==
    LET k == DeclaredQuads
        n == Len(input.hand_tiles)
    IN  /\ Accepted =>
              /\ k <= 4
              /\ n = 3 * (4 - k) + 4 * k + 2
              /\ n = 14 + k
        /\ (pc # "start" /\ n # 14 + k) => Rejected

\* 257 x 5p + 9m with no declared call: 258 tiles, and the counting loop
\* aborts under overflow checks before the tile count is looked at
C13_CountOverflow ==
    /\ pc = "done"
    /\ DeclaredQuads = 0
    /\ Len(input.hand_tiles) = U8 + 2
    /\ StateVerdict = "Ok"
    /\ agari_result = Abort

\* a 16-tile hand with a closed kan and an open kan accepted
C13_Witness ==
    /\ Accepted
    /\ Len(input.closed_kans) = 1
    /\ DeclaredQuads = 2
    /\ Len(input.hand_tiles) = 16

\* a 14-tile hand with a declared open kan rejected
C13_RejectedWitness ==
    /\ Rejected
    /\ StateVerdict = "Ok"
    /\ Len(input.hand_tiles) = 14
    /\ DeclaredQuads = 1
    /\ Len(input.closed_kans) = 0

\* the flag conflicts, each with its reject reason
FlagConflicts ==
    LET p == input.player_context
        g == input.game_context
        tsumo == input.agari_type = "Tsumo"
        ron == input.agari_type = "Ron"
        open == Len(input.open_melds) > 0
        calls == Len(input.open_melds) + Len(input.closed_kans) > 0
    IN  {<<p.is_riichi /\ p.is_daburu_riichi,
           "Invalid state: Cannot be both Riichi and Daburu Riichi.">>,
         <<p.is_ippatsu /\ ~p.is_riichi /\ ~p.is_daburu_riichi,
           "Invalid state: Ippatsu requires Riichi or Daburu Riichi.">>,
         <<p.is_menzen /\ open,
           "Invalid state: Hand is declared menzen but has open melds.">>,
         <<g.is_haitei /\ ron,
           "Invalid state: Haitei (last draw) cannot be a Ron win.">>,
         <<g.is_houtei /\ tsumo,
           "Invalid state: Houtei (last discard) cannot be a Tsumo win.">>,
         <<g.is_haitei /\ g.is_houtei,
           "Invalid state: Cannot be both Haitei and Houtei.">>,
         <<g.is_rinshan /\ ron,
           "Invalid state: Rinshan (kan draw) cannot be a Ron win.">>,
         <<g.is_chankan /\ tsumo,
           "Invalid state: Chankan (robbing kan) cannot be a Tsumo win.">>,
         <<g.is_tenhou /\ ~p.is_oya,
           "Invalid state: Tenhou requires player to be Oya (dealer).">>,
         <<g.is_tenhou /\ ~tsumo,
           "Invalid state: Tenhou must be a Tsumo win.">>,
         <<g.is_tenhou /\ calls,
           "Invalid state: Tenhou cannot have any calls (no open melds or kans).">>,
         <<g.is_chiihou /\ p.is_oya,
           "Invalid state: Chiihou requires player to be non-Oya.">>,
         <<g.is_chiihou /\ ~tsumo,
           "Invalid state: Chiihou must be a Tsumo win.">>,
         <<g.is_chiihou /\ calls,
           "Invalid state: Chiihou cannot have any calls (no open melds or kans).">>,
         <<g.is_renhou /\ ~ron,
           "Invalid state: Renhou must be a Ron win.">>}

\* the reasons of the conflicts the input has
ConflictReasons == {c[2] : c \in {d \in FlagConflicts : d[1]}}

\* C14: when the declared flags conflict in any of the listed ways,
\* organize_hand returns an error and no decomposition outcome; each conflict has
\* a reason of its own, the reason returned is that of a conflict the input has
\* (the only one, when it has only one), and it is returned also when the tiles
\* break a composition rule.
C14_FlagConflicts ==
    /\ Cardinality({c[2] : c \in FlagConflicts}) = 15
    /\ (pc # "start" /\ ConflictReasons # {}) =>
          /\ Rejected
          /\ ~IsRegular /\ ~IsIrregular
          /\ org_result.msg \in ConflictReasons
          /\ pc = "done" => agari_result = org_result
    /\ (pc # "start" /\ ConflictReasons = {}) =>
          ~(org_result.tag = "Err" /\ org_result.msg \in {c[2] : c \in FlagConflicts})

\* riichi together with double riichi on 300 x Pei: the counting loop aborts
\* under overflow checks before the flags are looked at
C14_CountOverflow ==
    /\ pc = "done"
    /\ ConflictReasons = {"Invalid state: Cannot be both Riichi and Daburu Riichi."}
    /\ input.hand_tiles = Copies(<<"Kaze", 4>>, 300)
    /\ agari_result = Abort

\* chiihou declared with a closed kan, on a hand that is sound otherwise
C14_Witness ==
    /\ pc = "done"
    /\ ConflictReasons =
          {"Invalid state: Chiihou cannot have any calls (no open melds or kans)."}
    /\ input.closed_kans # <<>>
    /\ agari_result = Err("Invalid state: Chiihou cannot have any calls (no open melds or kans).")

\* a flag conflict reported for a hand whose winning tile is missing
C14_PreferenceWitness ==
    /\ pc = "done"
    /\ input.winning_tile = AbsentTile
    /\ ConflictReasons = {"Invalid state: Renhou must be a Ron win."}
    /\ agari_result = Err("Invalid state: Renhou must be a Ron win.")

\* the reason of haitei together with houtei is never the one returned: a Ron
\* win then conflicts with haitei and a Tsumo win with houtei, both checked
\* before it
C14_HaiteiHouteiShadowed ==
    ~(org_result.tag = "Err"
      /\ org_result.msg = "Invalid state: Cannot be both Haitei and Houtei.")

\* the rank-5 tiles of the hand
HeldFives ==
    Cardinality({k \in 1 .. Len(input.hand_tiles) :
                   /\ input.hand_tiles[k][1] \in {"Manzu", "Pinzu", "Souzu"}
                   /\ input.hand_tiles[k][2] = 5})

CompositionSound ==
    /\ \E k \in 1 .. Len(input.hand_tiles) : input.hand_tiles[k] = input.winning_tile
    /\ \A t \in AllTiles : TileCount(input.hand_tiles, t) <= 4
    /\ input.game_context.num_akadora <= HeldFives
    /\ input.game_context.num_akadora <= 4

\* C15: every input validate_input accepts holds its winning tile, holds no
\* tile kind more than 4 times, and declares no more red fives than it holds
\* rank-5 tiles nor more than 4; an input breaking any of these is rejected.
C15_Composition ==
    /\ Accepted => CompositionSound
    /\ (pc # "start" /\ ~CompositionSound) => Rejected

\* 256 x 1m won on 1m, no call, no red five, consistent flags: a kind held
\* more than 4 times, and the counting loop aborts under overflow checks
C15_CountOverflow ==
    /\ pc = "done"
    /\ TileCount(input.hand_tiles, <<"Manzu", 1>>) = U8
    /\ input.winning_tile = <<"Manzu", 1>>
    /\ input.game_context.num_akadora = 0
    /\ NumCalls = 0
    /\ StateVerdict = "Ok"
    /\ agari_result = Abort

\* five red fives declared on a hand holding five rank-5 tiles: rejected,
\* although every other rule is kept
C15_Witness ==
    /\ Rejected
    /\ StateVerdict = "Ok"
    /\ input.game_context.num_akadora = 5
    /\ HeldFives = 5
    /\ \E k \in 1 .. Len(input.hand_tiles) : input.hand_tiles[k] = input.winning_tile
    /\ \A t \in AllTiles : TileCount(input.hand_tiles, t) <= 4

(***************************************************************************)
(* The fu reference (specification SpecScore)                              *)
(***************************************************************************)
RegularPath == Scored /\ YakumanOccurrences(yaku_result.yaku_list) = 0

HasHand(hs) == hs.tag \in {"YonmentsuIchiatama", "ChuurenPoutou"}

Mentions(yl, y) == \E k \in 1 .. Len(yl) : yl[k] = y

TerminalOrHonor(t) == t[1] \notin {"Manzu", "Pinzu", "Souzu"} \/ t[2] \in {1, 9}

RefTripletFu(m) ==
    IF m.is_minchou
    THEN (IF TerminalOrHonor(m.tiles[1]) THEN 4 ELSE 2)
    ELSE (IF TerminalOrHonor(m.tiles[1]) THEN 8 ELSE 4)

RefSetFu(m) ==
    CASE m.mentsu_type = "Shuntsu" -> 0
      [] m.mentsu_type = "Koutsu" -> RefTripletFu(m)
      [] m.mentsu_type = "Kantsu" -> 4 * RefTripletFu(m)

RefPairFu(t, bakaze, jikaze) ==
    CASE t[1] = "Sangen" -> 2
      [] t[1] = "Kaze" -> 2 * Cardinality({w \in {<<"round", bakaze>>, <<"seat", jikaze>>} :
                                             w[2] = t[2]})
      [] OTHER -> 0

\* the least multiple of 10 not below n
NextMultipleOfTen(n) == CHOOSE m \in n .. n + 9 : m % 10 = 0

\* the sets and the pair tiles of a structure; a seven-pairs or
\* thirteen-orphans structure carries neither
SetsOf(hs) == IF HasHand(hs) THEN hs.hand.mentsu ELSE <<>>

PairOf(hs) == IF HasHand(hs) THEN <<hs.hand.atama[1]>> ELSE <<>>

WaitOf(hs) == IF HasHand(hs) THEN hs.hand.machi ELSE hs.machi

RECURSIVE RefSetsFu(_)
RefSetsFu(sets) == IF sets = <<>> THEN 0 ELSE RefSetFu(Head(sets)) + RefSetsFu(Tail(sets))

\* 20 + win-method fu + set fu + pair fu + wait fu, rounded up
RefFuSum ==
    LET hs == yaku_result.hand_structure
    IN  NextMultipleOfTen(
            20
            + (IF input.agari_type = "Tsumo" THEN 2
               ELSE IF input.player_context.is_menzen THEN 10 ELSE 0)
            + RefSetsFu(SetsOf(hs))
            + (IF PairOf(hs) = <<>> THEN 0
               ELSE RefPairFu(PairOf(hs)[1], input.game_context.bakaze,
                              input.player_context.jikaze))
            + (IF WaitOf(hs) \in {"Tanki", "Kanchan", "Penchan"} THEN 2 ELSE 0))

RefFu ==
    LET yl == yaku_result.yaku_list
    IN  IF Mentions(yl, "Chiitoitsu") THEN 25
        ELSE IF Mentions(yl, "Pinfu")
        THEN (IF input.agari_type = "Tsumo" THEN 20 ELSE 30)
        ELSE RefFuSum

\* the reference with the two structures that carry no sets told apart
RefFuByStructure ==
    LET yl == yaku_result.yaku_list
        tag == yaku_result.hand_structure.tag
    IN  IF Mentions(yl, "Chiitoitsu") THEN 25
        ELSE IF Mentions(yl, "Pinfu")
        THEN (IF input.agari_type = "Tsumo" THEN 20 ELSE 30)
        ELSE IF tag = "Chiitoitsu" THEN 25
        ELSE IF tag = "KokushiMusou" THEN 0
        ELSE RefFuSum

C16_SevenPairsStructure ==
    /\ RegularPath
    /\ yaku_result.hand_structure.tag = "Chiitoitsu"
    /\ yaku_result.yaku_list = <<"Riichi">>
    /\ input.agari_type = "Ron" /\ input.player_context.is_menzen
    /\ agari_result.score.fu = 25

ClosedHan ==
    [y \in AllYaku |->
        CASE y \in {"Chinitsu"} -> 6
          [] y \in {"Ryanpeikou", "Junchan", "Honitsu"} -> 3
          [] y \in {"DaburuRiichi", "Chiitoitsu", "Toitoi", "Sanankou", "SanshokuDoukou",
                    "Sankantsu", "Shousangen", "Honroutou", "SanshokuDoujun", "Ittsu",
                    "Chanta"} -> 2
          [] y \in DoubleYakuman \cup SingleYakuman -> 0
          [] OTHER -> 1]

\* the patterns worth one han less in an open hand
ReducedWhenOpen == {"SanshokuDoujun", "Ittsu", "Chanta", "Junchan", "Honitsu", "Chinitsu"}

Occurrences(yl, S) == Cardinality({k \in 1 .. Len(yl) : yl[k] \in S})

\* the sum of the concealed values, one term per position of the list
RECURSIVE ClosedHanSum(_, _)
ClosedHanSum(yl, k) ==
    IF k = 0 THEN 0
    ELSE IF k = 1 THEN ClosedHan[yl[1]]
    ELSE LET half == k \div 2
         IN  ClosedHanSum(SubSeq(yl, 1, half), half)
             + ClosedHanSum(SubSeq(yl, half + 1, k), k - half)

\* C17: on the regular path han is the sum of the patterns' values with one
\* term per occurrence; an open hand scores the concealed sum minus the number
\* of occurrences of SanshokuDoujun, Ittsu, Chanta, Junchan, Honitsu and
\* Chinitsu, every other pattern keeping its value; each Dora, UraDora and
\* AkaDora entry adds exactly 1.
C17_HanSum ==
    RegularPath =>
        LET yl == yaku_result.yaku_list
            menzen == input.player_context.is_menzen
            closed == ClosedHanSum(yl, Len(yl))
        IN  /\ agari_result.score.han =
                  IF menzen THEN closed ELSE closed - Occurrences(yl, ReducedWhenOpen)
            /\ calculate_han(yl, FALSE, "release").value =
                  calculate_han(yl, TRUE, "release").value
                  - Occurrences(yl, ReducedWhenOpen)
            /\ \A y \in AllYaku \ ReducedWhenOpen :
                  get_han_value(y, FALSE) = get_han_value(y, TRUE)
            /\ agari_result.score.han =
                  calculate_han(WithoutBonusTiles(yl), menzen, "release").value
                  + Occurrences(yl, {"Dora", "UraDora", "AkaDora"})

\* a concealed hand with Riichi and 255 Dora entries: without overflow checks
\* han is 256 - 256 = 0
C17_BonusOverflow ==
    /\ RegularPath
    /\ input.player_context.is_menzen
    /\ yaku_result.yaku_list = <<"Riichi">> \o Copies("Dora", U8 - 1)
    /\ agari_result.score.han = 0

\* a concealed hand with Chinitsu listed 43 times: without overflow checks
\* han is 6 * 43 - 256 = 2
C17_HanOverflow ==
    /\ RegularPath
    /\ input.player_context.is_menzen
    /\ yaku_result.yaku_list = Copies("Chinitsu", 43)
    /\ agari_result.score.han = 2

\* an open hand with Chinitsu listed twice and one Dora: 5 + 1 + 5
C17_Witness ==
    /\ RegularPath
    /\ ~input.player_context.is_menzen
    /\ yaku_result.yaku_list = <<"Chinitsu", "Dora", "Chinitsu">>
    /\ agari_result.score.han = 11

\* a three-han reduced pattern alone in the list of an open hand
C17_EachReducedWitness ==
    /\ RegularPath
    /\ ~input.player_context.is_menzen
    /\ yaku_result.yaku_list = <<"Honitsu">>
    /\ agari_result.score.han = 2

(***************************************************************************)
(* The pair search of organize_hand (specification Spec)                   *)
(***************************************************************************)
\* a count vector is used up by Triplets and same-suit Sequences
SetsOnly(c) ==
    \E T \in SUBSET {k \in Kinds : c[k] >= 3} :
        SequencesOnly([k \in Kinds |-> IF k \in T THEN c[k] - 3 ELSE c[k]], 0)

\* the kinds with 2 concealed copies whose removal leaves sets only
PairCandidates ==
    {p \in Kinds : /\ RefConcealed[p] >= 2
                   /\ SetsOnly([RefConcealed EXCEPT ![p] = @ - 2])}

Lowest(S) == CHOOSE p \in S : \A q \in S : p <= q

\* C18: with fewer than 4 declared calls, the pair of a Regular result is the
\* lowest-index kind with at least 2 concealed copies whose removal leaves
\* tiles the set search uses up; the hypotheses tried are the kinds with 2
\* concealed copies up to that one, and none above it.
C18_LowestPair ==
    (IsRegular /\ NumCalls < 4) =>
        LET candidates == PairCandidates
            lowest == Lowest(candidates)
        IN  /\ candidates # {}
            /\ org_result.hand.atama = <<index_to_tile(lowest), index_to_tile(lowest)>>
            /\ PairsTried = Cardinality({k \in Kinds : /\ RefConcealed[k] >= 2
                                                       /\ k <= lowest})
            /\ idx = lowest

\* a hand with two valid pairs, found Regular with the lower one after a
\* hypothesis at a still lower index failed
C18_Witness ==
    /\ IsRegular
    /\ NumCalls < 4
    /\ Cardinality(PairCandidates) >= 2
    /\ PairsTried >= 2
    /\ \E p \in PairCandidates : org_result.hand.atama[1] # index_to_tile(p)

\* a hand with declared calls found Regular at its second pair hypothesis
C18_CalledWitness ==
    /\ IsRegular
    /\ NumCalls \in 1 .. 3
    /\ PairsTried >= 2

(***************************************************************************)
(* Four declared calls (specification Spec)                                *)
(***************************************************************************)
\* the set a declared open meld stands for
DeclaredOpenSet(meld) ==
    LET t == meld.representative_tile IN
    [mentsu_type |-> meld.mentsu_type, is_minchou |-> TRUE,
     tiles |-> IF meld.mentsu_type = "Shuntsu"
               THEN <<t, <<t[1], t[2] + 1>>, <<t[1], t[2] + 2>>, <<t[1], t[2] + 2>>>>
               ELSE <<t, t, t, t>>]

\* the declared sets in declaration order: closed kans, then open melds
DeclaredSets ==
    [k \in 1 .. NumCalls |->
        IF k <= Len(input.closed_kans)
        THEN [mentsu_type |-> "Kantsu", is_minchou |-> FALSE,
              tiles |-> <<input.closed_kans[k], input.closed_kans[k],
                          input.closed_kans[k], input.closed_kans[k]>>]
        ELSE DeclaredOpenSet(input.open_melds[k - Len(input.closed_kans)])]

\* a valid input with 4 declared calls, all held by the hand
FourCalls == ValidationVerdict = "Ok" /\ NumCalls = 4 /\ CallsPresent

\* the kinds of the tiles left once the calls are taken out, with repeats
LeftoverKinds == {k \in Kinds : RefConcealed[k] > 0}

LeftoverIsPair == \E k \in Kinds : RefConcealed[k] = 2 /\ LeftoverKinds = {k}

\* C19: with 4 declared calls and two identical tiles left after taking the
\* calls out, organize_hand returns Regular with the four declared sets in
\* declaration order (closed kans, then open melds), that tile as the pair
\* and the wait Tanki.
C19_FourCallsPair ==
    (pc = "organized" /\ FourCalls /\ LeftoverIsPair) =>
        LET p == index_to_tile(CHOOSE k \in Kinds : RefConcealed[k] = 2) IN
        /\ IsRegular
        /\ org_result.hand.mentsu = DeclaredSets
        /\ org_result.hand.atama = <<p, p>>
        /\ org_result.hand.machi = "Tanki"
        /\ org_result.hand.agari_hai = input.winning_tile

\* a closed kan declared before open melds of two different types, the hand
\* won on a tile of one of the calls
C19_Witness ==
    /\ pc = "organized"
    /\ FourCalls
    /\ LeftoverIsPair
    /\ IsRegular
    /\ input.closed_kans # <<>>
    /\ \E a, b \in 1 .. Len(input.open_melds) :
          input.open_melds[a].mentsu_type # input.open_melds[b].mentsu_type
    /\ input.winning_tile # org_result.hand.atama[1]

\* C20: with 4 declared calls and two different tiles left after taking the
\* calls out, organize_hand returns the error "4 open melds but no pair
\* found" unless the hand has exactly 14 tiles; a 14-tile hand is returned as
\* Irregular, no pair hypothesis having been tried.
C20_FourCallsNoPair ==
    (pc = "organized" /\ FourCalls /\ ~LeftoverIsPair) =>
        IF Len(input.hand_tiles) # 14
        THEN org_result = [tag |-> "Err",
                           msg |-> "Invalid hand: 4 open melds but no pair found."]
        ELSE /\ org_result = [tag |-> "Irregular",
                              counts |-> RefCounts(input.hand_tiles),
                              agari_hai |-> input.winning_tile]
             /\ PairsTried = 0

\* an open kan among the 4 calls, two different tiles left: the error
C20_Witness ==
    /\ pc = "organized"
    /\ FourCalls
    /\ Cardinality(LeftoverKinds) = 2
    /\ Len(input.hand_tiles) > 14
    /\ input.open_melds # <<>>
    /\ org_result.tag = "Err"

\* four calls none of which is a kan, two different tiles left: Irregular
C20_FourteenWitness ==
    /\ pc = "organized"
    /\ FourCalls
    /\ Cardinality(LeftoverKinds) = 2
    /\ Len(input.hand_tiles) = 14
    /\ IsIrregular

(***************************************************************************)
(* The set search on its failure path (specification Spec)                 *)
(***************************************************************************)
\* C21: a call of find_mentsu_recursive that returns false leaves the count
\* vector and the set list exactly as they were given, whether the list was
\* empty or not; and the concealed counts of organize_hand stay what the
\* declared calls left of the hand however many pair hypotheses were tried.
C21_FailureRestores ==
    /\ (pc = "pairs" /\ HasPairFrom(concealed_counts, idx)) =>
          LET i == NextPair(concealed_counts, idx)
              given == [concealed_counts EXCEPT ![i] = @ - 2]
              r == find_mentsu_recursive(given, <<>>)
              q == find_mentsu_recursive(given, final_mentsu)
          IN  /\ ~r.ok => (r.counts = given /\ r.mentsu = <<>>)
              /\ ~q.ok => (q.counts = given /\ q.mentsu = final_mentsu)
              /\ q.ok = r.ok
    /\ (pc = "pairs" \/ PairsTried > 0) => concealed_counts = RefConcealed

\* a second pair hypothesis about to fail after a tentative Triplet and a
\* tentative Sequence at the lowest kind, on a hand with a declared call
C21_Witness ==
    /\ pc = "pairs"
    /\ PairsTried >= 1
    /\ final_mentsu # <<>>
    /\ HasPairFrom(concealed_counts, idx)
    /\ LET i == NextPair(concealed_counts, idx)
           given == [concealed_counts EXCEPT ![i] = @ - 2]
           k == FirstNonzero(given)
       IN  /\ k < NumKinds
           /\ CanKoutsu(given, k)
           /\ CanShuntsu(given, k)
           /\ ~find_mentsu_recursive(given, <<>>).ok

(***************************************************************************)
(* The order of the set search (specification Spec)                        *)
(***************************************************************************)
\* the sets the search found: those after the declared ones
SearchedSets == SubSeq(org_result.hand.mentsu, NumCalls + 1, 4)

\* what the search was given: the concealed tiles without the pair
SearchedCounts ==
    [RefConcealed EXCEPT ![tile_to_index(org_result.hand.atama[1])] = @ - 2]

LowestTileIndex(m) == tile_to_index(m.tiles[1])

IsSuitRun(m) ==
    LET t == m.tiles[1] IN
    /\ t[1] \in {"Manzu", "Pinzu", "Souzu"}
    /\ t[2] \in 1 .. 7
    /\ m.tiles[2] = <<t[1], t[2] + 1>>
    /\ m.tiles[3] = <<t[1], t[2] + 2>>

\* the list sets, from position k on, is what a search that always acts on the
\* lowest kind left, Triplet first, makes of the counts c: a Sequence stands
\* at a kind with 3 copies only where the Triplet leads to no full split
RECURSIVE FollowsSearch(_, _, _)
FollowsSearch(c, sets, k) ==
    IF k > Len(sets) THEN \A j \in Kinds : c[j] = 0
    ELSE LET m == sets[k]
             left == {j \in Kinds : c[j] > 0}
             i == LowestTileIndex(m)
         IN  /\ left # {}
             /\ i = Lowest(left)
             /\ ~m.is_minchou
             /\ CASE m.mentsu_type = "Koutsu" ->
                       /\ c[i] >= 3
                       /\ FollowsSearch([c EXCEPT ![i] = @ - 3], sets, k + 1)
                  [] m.mentsu_type = "Shuntsu" ->
                       /\ IsSuitRun(m)
                       /\ c[i] >= 3 => ~SetsOnly([c EXCEPT ![i] = @ - 3])
                       /\ FollowsSearch([c EXCEPT ![i] = @ - 1, ![i + 1] = @ - 1,
                                                  ![i + 2] = @ - 1], sets, k + 1)
                  [] OTHER -> FALSE

\* C22: the sets the search returns are those of a search acting at each step
\* on the lowest kind left, a Triplet tried before a Sequence: they are in
\* non-decreasing order of their lowest tile index, each is a concealed
\* Triplet or a concealed Sequence starting at rank 1-7 within one suit, none
\* is a Quad, and three Triplets are returned rather than three equal
\* Sequences.
C22_SearchOrder ==
    (IsRegular /\ NumCalls < 4) =>
        LET sets == SearchedSets IN
        /\ FollowsSearch(SearchedCounts, sets, 1)
        /\ \A k \in 1 .. Len(sets) - 1 :
              LowestTileIndex(sets[k]) <= LowestTileIndex(sets[k + 1])
        /\ \A k \in 1 .. Len(sets) :
              /\ sets[k].mentsu_type \in {"Koutsu", "Shuntsu"}
              /\ sets[k].mentsu_type = "Shuntsu" => IsSuitRun(sets[k])
              /\ ~sets[k].is_minchou
        /\ \A a, b, d \in 1 .. Len(sets) :
              (a < b /\ b < d /\ sets[a].mentsu_type = "Shuntsu") =>
                  ~(sets[a] = sets[b] /\ sets[b] = sets[d])

\* three consecutive kinds of one suit held 3 times each after the pair is
\* taken: returned as three Triplets
C22_Witness ==
    /\ IsRegular
    /\ NumCalls = 0
    /\ \E i \in Kinds :
          /\ index_to_tile(i)[1] = "Manzu"
          /\ index_to_tile(i)[2] <= 7
          /\ \A j \in i .. i + 2 : SearchedCounts[j] = 3
          /\ \A j \in i .. i + 2 :
                \E k \in 1 .. 4 : org_result.hand.mentsu[k] = Koutsu(index_to_tile(j), FALSE)

\* a hand with declared calls whose searched sets are a Triplet and then a
\* Sequence
C22_CalledWitness ==
    /\ IsRegular
    /\ NumCalls = 2
    /\ SearchedSets[1].mentsu_type = "Koutsu"
    /\ SearchedSets[2].mentsu_type = "Shuntsu"

(***************************************************************************)
(* The fatal internal checks of organize_hand (specification Spec)         *)
(***************************************************************************)
\* C23: organize_hand never aborts.  Whenever the set search succeeds under a
\* pair hypothesis it has found 4 minus the number of declared calls sets, so
\* the set array has 4 entries; and whenever the wait is determined for a
\* winning tile that is not the pair tile, one of the four sets holds it.
C23_NoAbort ==
    /\ org_result # Abort
    /\ (pc = "pairs" /\ HasPairFrom(concealed_counts, idx)) =>
          LET i == NextPair(concealed_counts, idx)
              r == pair_hypothesis(concealed_counts, i)
              all == final_mentsu \o r.mentsu
              w == input.winning_tile
          IN  r.ok =>
                 /\ Len(r.mentsu) = 4 - NumCalls
                 /\ Len(all) = 4
                 /\ w # index_to_tile(i) => \E k \in 1 .. 4 : SetHolds(all[k], w)
    /\ (IsRegular /\ input.winning_tile # org_result.hand.atama[1]) =>
          SetsHolding(org_result.hand.mentsu, input.winning_tile) # {}

\* organize_hand has aborted in its counting loop on 256 x 1m, without a
\* declared call, and calculate_agari with it
C23_CountOverflow ==
    /\ pc = "done"
    /\ CountingAborted
    /\ input.hand_tiles = Copies(<<"Manzu", 1>>, U8)
    /\ NumCalls = 0
    /\ agari_result = Abort

\* a pair hypothesis about to succeed on a hand with declared calls, the
\* winning tile held by a declared set only
C23_Witness ==
    /\ pc = "pairs"
    /\ NumCalls \in 1 .. 3
    /\ HasPairFrom(concealed_counts, idx)
    /\ pair_hypothesis(concealed_counts, NextPair(concealed_counts, idx)).ok
    /\ concealed_counts[tile_to_index(input.winning_tile)] = 0

(***************************************************************************)
(* The wait of a hand with declared calls (specification Spec)             *)
(***************************************************************************)
\* the declared sets that hold the winning tile, by position
DeclaredHolders == {k \in 1 .. NumCalls : SetHolds(DeclaredSets[k], input.winning_tile)}

\* the searched sets that hold the winning tile, by position in the array
SearchedHolders ==
    {k \in (NumCalls + 1) .. 4 : SetHolds(org_result.hand.mentsu[k], input.winning_tile)}

\* C24: when the wait is determined for a winning tile that is not the pair
\* tile, the array is the declared closed kans, then the declared open melds,
\* then the searched sets, and the wait is that of the first set of the array
\* holding the winning tile: a declared set holding it is chosen over any
\* searched set holding it.
C24_DeclaredSetFirst ==
    (IsRegular /\ NumCalls < 4 /\ input.winning_tile # org_result.hand.atama[1]) =>
        LET w == input.winning_tile
            declared == DeclaredHolders
            searched == SearchedHolders
        IN  /\ SubSeq(org_result.hand.mentsu, 1, NumCalls) = DeclaredSets
            /\ declared \cup searched # {}
            /\ org_result.hand.machi =
                  IF declared # {}
                  THEN RefMachi(DeclaredSets[FirstOf(declared)], w)
                  ELSE RefMachi(org_result.hand.mentsu[FirstOf(searched)], w)

\* a declared set and a searched set both hold the winning tile and give
\* different waits: the wait of the declared one is reported
C24_Witness ==
    /\ IsRegular
    /\ NumCalls < 4
    /\ input.winning_tile # org_result.hand.atama[1]
    /\ DeclaredHolders # {}
    /\ \E k \in SearchedHolders :
          RefMachi(org_result.hand.mentsu[k], input.winning_tile) # org_result.hand.machi

(***************************************************************************)
(* Declared calls the hand does not cover (specification Spec)             *)
(***************************************************************************)
\* the declared calls in the order they are taken out of the hand
Calls ==
    [k \in 1 .. Len(input.closed_kans) |->
        [mentsu_type |-> "Kantsu", closed |-> TRUE, tile |-> input.closed_kans[k]]]
    \o [k \in 1 .. Len(input.open_melds) |->
          [mentsu_type |-> input.open_melds[k].mentsu_type, closed |-> FALSE,
           tile |-> input.open_melds[k].representative_tile]]

ChiStartValid(c) == c.tile[1] \in {"Manzu", "Pinzu", "Souzu"} /\ c.tile[2] <= 7

\* how many copies of tile t the call c takes
CallTakes(c, t) ==
    CASE c.mentsu_type = "Kantsu" -> IF t = c.tile THEN 4 ELSE 0
      [] c.mentsu_type = "Koutsu" -> IF t = c.tile THEN 3 ELSE 0
      [] OTHER -> IF t[1] = c.tile[1] /\ t[2] \in c.tile[2] .. c.tile[2] + 2 THEN 1 ELSE 0

RECURSIVE TakenBefore(_, _)
TakenBefore(k, t) ==
    IF k = 1 THEN 0 ELSE CallTakes(Calls[k - 1], t) + TakenBefore(k - 1, t)

\* at its turn the call k is a Chi with a bad start or is not covered by the
\* tiles the calls before it have left
FailsAtTurn(k) ==
    LET c == Calls[k] IN
    \/ c.mentsu_type = "Shuntsu" /\ ~ChiStartValid(c)
    \/ \E t \in AllTiles :
          /\ CallTakes(c, t) > 0
          /\ TileCount(input.hand_tiles, t) - TakenBefore(k, t) < CallTakes(c, t)

FailingCalls == {k \in 1 .. Len(Calls) : FailsAtTurn(k)}

CallError(c) ==
    CASE c.mentsu_type = "Kantsu" /\ c.closed ->
            "Invalid input: declared closed kan not present in hand tiles."
      [] c.mentsu_type = "Kantsu" /\ ~c.closed ->
            "Invalid input: declared open Kan not present in hand tiles."
      [] c.mentsu_type = "Koutsu" ->
            "Invalid input: declared Pon not present in hand tiles."
      [] c.mentsu_type = "Shuntsu" /\ ~ChiStartValid(c) ->
            "Invalid representative tile for Chi (must be 1-7 of a suit)."
      [] OTHER -> "Invalid input: declared Chi not present in hand tiles."

CallsTaken ==
    Cardinality({k \in 1 .. Len(trace) : trace[k] \in {"closed_kan", "open_meld"}})

\* C25: the declared calls are taken out of the counts one by one, closed kans
\* first, then open melds in the order given; an input that passed validation
\* and has a call that at its turn is not covered by the tiles left, or a Chi
\* starting at an honor or at rank 8 or 9, ends in the error of the first such
\* call, at that call's turn, and in no Regular or Irregular outcome.
C25_UncoveredCall ==
    (pc = "organized" /\ ValidationVerdict = "Ok" /\ FailingCalls # {}) =>
        LET k == FirstOf(FailingCalls) IN
        /\ org_result = [tag |-> "Err", msg |-> CallError(Calls[k])]
        /\ CallsTaken = k
        /\ PairsTried = 0

\* a second Pon of the same kind, covered on its own but not after the first
C25_Witness ==
    /\ pc = "organized"
    /\ ValidationVerdict = "Ok"
    /\ Len(input.open_melds) = 2
    /\ input.open_melds[1] = input.open_melds[2]
    /\ FailingCalls = {2}
    /\ org_result.tag = "Err"

\* a Chi declared at rank 8 whose three kinds (8m 9m 1p) the hand holds
C25_ChiStartWitness ==
    /\ pc = "organized"
    /\ ValidationVerdict = "Ok"
    /\ Len(input.open_melds) = 1
    /\ input.open_melds[1] = [mentsu_type |-> "Shuntsu",
                              representative_tile |-> <<"Manzu", 8>>]
    /\ org_result.tag = "Err"

\* an open meld not covered once a closed kan has been taken
C25_AfterKanWitness ==
    /\ pc = "organized"
    /\ ValidationVerdict = "Ok"
    /\ input.closed_kans # <<>>
    /\ FailingCalls = {2}
    /\ org_result.tag = "Err"

====
